---------------------------- MODULE Spec2Model ----------------------------
(***************************************************************************)
(* goxkey: the input tracking state machine (src/src/input.rs), the key    *)
(* event handler that drives it (src/src/main.rs) and the hotkey matcher   *)
(* (src/src/hotkey.rs).                                                    *)
(*                                                                         *)
(* A character is a string.  "a2" stands for a two-byte Vietnamese letter  *)
(* (a-acute, U+00E1) and "a3" for a three-byte one (a-dot-below, U+1EA1);  *)
(* every other character is one byte of ASCII.  A Rust String is the       *)
(* sequence of its characters.                                             *)
(***************************************************************************)
EXTENDS Integers, Sequences, FiniteSets, TLC

VARIABLES
    buffer,             \* InputState.buffer (the typing buffer)
    display_buffer,     \* InputState.display_buffer
    previous_word,      \* InputState.previous_word
    enabled,            \* InputState.enabled
    should_track,       \* InputState.should_track
    is_macro_enabled,   \* InputState.is_macro_enabled
    method,             \* InputState.method: "telex" or "vni"
    config,             \* CONFIG_MANAGER: the ConfigStore, as its file holds it
    listener,           \* the listener thread: "idle" or the key it handles
    KEYBOARD_LAYOUT_CHARACTER_MAP, \* the keys of the layout map (input.rs:90)
    macro_table,        \* InputState.macro_table: a function from -> to
    active_app,         \* InputState.active_app
    vn_apps,            \* ConfigStore.vn_apps
    en_apps,            \* ConfigStore.en_apps
    is_auto_toggle_enabled, \* ConfigStore.is_auto_toggle_enabled
    hotkey,             \* InputState.hotkey: [modifiers, keycode]
    temporary_disabled, \* flag set by set_temporary_disabled
    previous_modifiers, \* modifiers saved by save_previous_modifiers
    HOTKEY_MODIFIERS,   \* static of the hotkey matching (main.rs:121)
    HOTKEY_MATCHING,    \* static of the hotkey matching (main.rs:122)
    HOTKEY_MATCHING_CIRCUIT_BREAK, \* static of the hotkey matching (main.rs:123)
    held,               \* environment: the modifier keys physically held
    screen,             \* environment: the text on screen of the tracked word
    ev,                 \* history: the last event given to event_handler
    ret,                \* history: what event_handler returned for it
    sent,               \* history: the send_backspace/send_string calls it made
    closed,             \* history: the word it left on screen when it ended one
    typed,              \* history: the characters pushed since the word began
    chord,              \* history: progress of the hotkey chord being pressed
    nevents,            \* history: the number of events counted so far
    chosen              \* history: the mode last toggled to, per application

vars == <<buffer, display_buffer, previous_word, enabled, should_track,
          is_macro_enabled, method, config, listener,
          KEYBOARD_LAYOUT_CHARACTER_MAP, macro_table, active_app, vn_apps, en_apps,
          is_auto_toggle_enabled, hotkey, temporary_disabled,
          previous_modifiers, HOTKEY_MODIFIERS, HOTKEY_MATCHING,
          HOTKEY_MATCHING_CIRCUIT_BREAK, held, screen, ev, ret, sent, closed,
          typed, chord, nevents, chosen>>

-----------------------------------------------------------------------------
(* Bounds of the model *)

\* Number of events the environment gives to event_handler in Spec.
MaxEvents == 4

-----------------------------------------------------------------------------
(* Characters and strings *)

MAX_POSSIBLE_WORD_LENGTH == 10

KEY_ENTER == "ENTER"
KEY_SPACE == " "
KEY_TAB == "TAB"
KEY_DELETE == "DELETE"
KEY_ESCAPE == "ESC"

RAW_KEY_GLOBE == "GLOBE"
RAW_ARROW_UP == "UP"
RAW_ARROW_DOWN == "DOWN"
RAW_ARROW_LEFT == "LEFT"
RAW_ARROW_RIGHT == "RIGHT"

MODIFIER_SHIFT == "shift"
MODIFIER_SUPER == "super"
MODIFIER_CONTROL == "control"
MODIFIER_ALT == "alt"
MODIFIER_CAPSLOCK == "capslock"

is_shift(m) == MODIFIER_SHIFT \in m
is_super(m) == MODIFIER_SUPER \in m
is_control(m) == MODIFIER_CONTROL \in m
is_alt(m) == MODIFIER_ALT \in m
is_capslock(m) == MODIFIER_CAPSLOCK \in m

to_ascii_uppercase(c) ==
    CASE c = "a" -> "A" [] c = "s" -> "S" [] c = "b" -> "B" [] c = "x" -> "X"
      [] OTHER -> c

to_ascii_lowercase(c) ==
    CASE c = "A" -> "a" [] c = "S" -> "s" [] c = "B" -> "b" [] c = "X" -> "x"
      [] OTHER -> c

eq_ignore_ascii_case(a, b) == to_ascii_lowercase(a) = to_ascii_lowercase(b)

is_numeric(c) == c \in {"0", "1", "2", "3", "4", "5", "6", "7", "8", "9"}

\* The characters of "()[]{}<>/\\!@#$%^&*-_=+|~`,.;'\"/" (main.rs:190);
\* "grave" stands for the grave accent.
SpecialChars ==
    {"(", ")", "[", "]", "{", "}", "<", ">", "/", "\\", "!", "@", "#", "$",
     "%", "^", "&", "*", "-", "_", "=", "+", "|", "~", "grave", ",", ".",
     ";", "'", "\""}

\* The UTF-8 length of a character.
len_utf8(c) == CASE c = "a2" -> 2 [] c = "a3" -> 3 [] OTHER -> 1

\* String::len: the length in bytes.
RECURSIVE ByteLen(_)
ByteLen(s) == IF s = <<>> THEN 0 ELSE len_utf8(Head(s)) + ByteLen(Tail(s))

\* str::chars().count()
CharCount(s) == Len(s)

LowerStr(s) == [i \in 1..Len(s) |-> to_ascii_lowercase(s[i])]

\* str::contains
Contains(s, p) ==
    \E i \in 0..(Len(s) - Len(p)) : SubSeq(s, i + 1, i + Len(p)) = p

\* String::pop: the string without its last character.
PopChar(s) == IF s = <<>> THEN s ELSE SubSeq(s, 1, Len(s) - 1)

TONE_DUPLICATE_PATTERNS ==
    {<<"s", "s">>, <<"f", "f">>, <<"j", "j">>, <<"r", "r">>, <<"x", "x">>,
     <<"w", "w">>, <<"k", "k">>, <<"t", "t">>, <<"n", "n">>, <<"m", "m">>,
     <<"y", "y">>, <<"h", "h">>, <<"i", "i">>, <<"a", "a", "a">>,
     <<"e", "e", "e">>, <<"o", "o", "o">>}

STOP_TRACKING_WORDS == {<<";">>, <<"'">>, <<"?">>, <<"/">>}

-----------------------------------------------------------------------------
(* The state a handler works on: the InputState fields it changes, the     *)
(* calls it has sent to the OS so far (sent), the tracked word as it is on *)
(* screen (screen) and whether the focused target still holds a text       *)
(* selection (insel).                                                      *)

Cur(sel) ==
    [buffer |-> buffer, display_buffer |-> display_buffer,
     previous_word |-> previous_word, enabled |-> enabled,
     should_track |-> should_track, temporary_disabled |-> temporary_disabled,
     active_app |-> active_app, vn_apps |-> vn_apps, en_apps |-> en_apps,
     typed |-> typed, sent |-> <<>>, screen |-> screen, insel |-> sel,
     closed |-> <<>>]

\* What is left of the tracked word when more characters are deleted than
\* it has: the text before the word has been eaten.
OVERRUN == <<"<">>

\* send_backspace(handle, n): n Delete key presses.  A pending selection
\* takes the first of them (input.rs:338-341).  A negative n is the wrapped
\* count of a usize underflow: it deletes all there is and more.
send_backspace(S, n) ==
    LET eff == IF S.insel /\ n # 0 THEN n - 1 ELSE n
    IN [S EXCEPT !.sent = Append(@, <<"bs", n>>),
                 !.screen = IF n < 0 \/ eff > Len(@) THEN OVERRUN
                            ELSE SubSeq(@, 1, Len(@) - eff),
                 !.insel = IF n # 0 THEN FALSE ELSE @]

\* send_string(handle, s): s is typed at the cursor.
send_string(S, s) ==
    [S EXCEPT !.sent = Append(@, <<"str", s>>), !.screen = @ \o s,
              !.insel = IF s # <<>> THEN FALSE ELSE @]


-----------------------------------------------------------------------------
(* InputState (input.rs) *)

is_enabled(S) == S.enabled

\* is_tracking answering true in every state.
is_tracking_always(S) == TRUE

is_tracking(S) == S.should_track

\* InputState::clear.  The tracked word on screen ends with the buffers.
clear(S) ==
    [S EXCEPT !.previous_word = S.buffer, !.buffer = <<>>,
              !.display_buffer = <<>>, !.typed = <<>>, !.screen = <<>>,
              !.closed = S.screen]

\* new_word leaving the word untracked.
new_word_suspended(S) ==
    LET S1 == IF S.buffer # <<>> THEN clear(S) ELSE S
    IN [S1 EXCEPT !.should_track = FALSE, !.typed = <<>>, !.screen = <<>>,
                  !.closed = IF S.buffer # <<>> THEN S1.closed ELSE S.screen]

\* InputState::new_word
new_word(S) ==
    LET S1 == IF S.buffer # <<>> THEN clear(S) ELSE S
    IN [S1 EXCEPT !.should_track = TRUE, !.typed = <<>>, !.screen = <<>>,
                  !.closed = IF S.buffer # <<>> THEN S1.closed ELSE S.screen]

\* stop_tracking that clears and goes on tracking.
stop_tracking_keeps(S) == clear(S)

\* InputState::stop_tracking
stop_tracking(S) == [clear(S) EXCEPT !.should_track = FALSE]

\* replace writing the typing buffer too.
replace_both(S, buf) == [S EXCEPT !.display_buffer = buf, !.buffer = buf]

\* InputState::replace
replace(S, buf) == [S EXCEPT !.display_buffer = buf]

\* push with the strict comparison.
push_strict(S, c) ==
    IF ByteLen(S.buffer) < MAX_POSSIBLE_WORD_LENGTH
    THEN [S EXCEPT !.buffer = Append(@, c), !.display_buffer = Append(@, c),
                   !.typed = Append(@, c)]
    ELSE [S EXCEPT !.typed = Append(@, c)]

\* InputState::push
push(S, c) ==
    IF ByteLen(S.buffer) <= MAX_POSSIBLE_WORD_LENGTH
    THEN [S EXCEPT !.buffer = Append(@, c), !.display_buffer = Append(@, c),
                   !.typed = Append(@, c)]
    ELSE [S EXCEPT !.typed = Append(@, c)]

\* InputState::pop.  What was typed is from now on what pop leaves.
pop(S) ==
    LET d == PopChar(S.display_buffer)
        S1 == [S EXCEPT !.display_buffer = d, !.buffer = d, !.typed = d]
    IN IF d = <<>> THEN new_word(S1) ELSE S1

\* InputState::clear_previous_word
clear_previous_word(S) == [S EXCEPT !.previous_word = <<>>]

\* InputState::previous_word_is_stop_tracking_words
previous_word_is_stop_tracking_words(S) ==
    S.previous_word \in STOP_TRACKING_WORDS

\* should_stop_tracking without the test of the previous word.
should_stop_tracking_word_only(S) ==
    \/ ByteLen(S.buffer) > MAX_POSSIBLE_WORD_LENGTH
    \/ \E p \in TONE_DUPLICATE_PATTERNS : Contains(LowerStr(S.buffer), p)

\* InputState::should_stop_tracking
should_stop_tracking(S) ==
    \/ ByteLen(S.buffer) > MAX_POSSIBLE_WORD_LENGTH
    \/ \E p \in TONE_DUPLICATE_PATTERNS : Contains(LowerStr(S.buffer), p)
    \/ previous_word_is_stop_tracking_words(S)

\* stop_tracking_if_needed that never stops.
stop_tracking_if_needed_never(S) == S

\* InputState::stop_tracking_if_needed
stop_tracking_if_needed(S) ==
    IF should_stop_tracking(S) THEN stop_tracking(S) ELSE S

\* InputState::should_send_keyboard_event
should_send_keyboard_event(S, word) == S.buffer # word

\* get_backspace_count without the text selection.
get_backspace_count_unselected(S, is_delete) ==
    LET dp_len == CharCount(S.display_buffer)
    IN IF is_delete /\ dp_len >= 1 THEN dp_len ELSE dp_len - 1

\* InputState::get_backspace_count; insel is is_in_text_selection().
\* A negative result is the usize subtraction 0 - 1.
get_backspace_count(S, is_delete) ==
    LET dp_len == CharCount(S.display_buffer)
        backspace_count == IF is_delete /\ dp_len >= 1 THEN dp_len
                           ELSE dp_len - 1
    IN IF S.insel THEN backspace_count + 1 ELSE backspace_count

\* InputState::set_temporary_disabled (called at main.rs:239)
set_temporary_disabled(S) == [S EXCEPT !.temporary_disabled = TRUE]

\* ConfigStore.allowed_words, as read from the config file.
allowed_words == {<<"a", "a2">>}

\* ConfigStore::is_allowed_word
is_allowed_word(word) == word \in allowed_words

\* get_macro_target whether macros are enabled or not.
get_macro_target_always(S) ==
    IF S.display_buffer \in DOMAIN macro_table
    THEN {macro_table[S.display_buffer]}
    ELSE {}

\* InputState::get_macro_target: the targets of the displayed word.
get_macro_target(S) ==
    IF ~is_macro_enabled THEN {}
    ELSE IF S.display_buffer \in DOMAIN macro_table
         THEN {macro_table[S.display_buffer]}
         ELSE {}

\* InputState::should_dismiss_selection_if_needed
should_dismiss_selection_if_needed(S) == S.active_app = "Firefox"

-----------------------------------------------------------------------------
(* The transliteration engine (the vi crate) is external: a call of        *)
(* transform_keys either fails or gives an output and tells whether a tone *)
(* mark or a letter modification was removed.  The engine may echo its     *)
(* input or answer with a word no longer than the input; what it removes   *)
(* an earlier key has put there, so the input then has two keys or more.   *)

EngineWords ==
    {<<"a2">>, <<"a", "a2">>, <<"a3", "a3", "a3", "a3", "a3">>}

EngineOutputs(buf) ==
    {buf} \cup {w \in EngineWords : Len(w) <= Len(buf)}

\* InputState::transform_keys with the engine's answer
transform_keys(S) ==
    {[ok |-> FALSE, output |-> <<>>, removed |-> FALSE]}
    \cup {[ok |-> TRUE, output |-> w, removed |-> FALSE] :
            w \in EngineOutputs(S.buffer)}
    \cup {[ok |-> TRUE, output |-> w, removed |-> TRUE] :
            w \in IF Len(S.buffer) >= 2
                  THEN EngineOutputs(S.buffer) \ {S.buffer}
                  ELSE {}}

-----------------------------------------------------------------------------
(* main.rs: the reconciliations *)

\* do_transform_keys taking the output of a failed call as an answer.
do_transform_keys_unchecked(S, is_delete, eng) ==
    IF should_send_keyboard_event(S, eng.output) \/ is_delete
    THEN LET S0 == IF should_dismiss_selection_if_needed(S)
                   THEN send_backspace(send_string(S, <<" ">>), 1)
                   ELSE S
             n == get_backspace_count(S0, is_delete)
             S1 == send_string(send_backspace(S0, n), eng.output)
             S2 == replace(S1, eng.output)
             S3 == IF eng.removed THEN stop_tracking(S2) ELSE S2
         IN [st |-> S3, ret |-> TRUE]
    ELSE [st |-> S, ret |-> FALSE]

\* do_transform_keys going on tracking after a removal.
do_transform_keys_tracks_on(S, is_delete, eng) ==
    IF eng.ok /\ (should_send_keyboard_event(S, eng.output) \/ is_delete)
    THEN LET S0 == IF should_dismiss_selection_if_needed(S)
                   THEN send_backspace(send_string(S, <<" ">>), 1)
                   ELSE S
             n == get_backspace_count(S0, is_delete)
             S1 == send_string(send_backspace(S0, n), eng.output)
         IN [st |-> replace(S1, eng.output), ret |-> TRUE]
    ELSE [st |-> S, ret |-> FALSE]

\* do_transform_keys; eng is what transform_keys returned.
do_transform_keys(S, is_delete, eng) ==
    IF eng.ok /\ (should_send_keyboard_event(S, eng.output) \/ is_delete)
    THEN LET S0 == IF should_dismiss_selection_if_needed(S)
                   THEN send_backspace(send_string(S, <<" ">>), 1)
                   ELSE S
             n == get_backspace_count(S0, is_delete)
             S1 == send_string(send_backspace(S0, n), eng.output)
             S2 == replace(S1, eng.output)
             S3 == IF eng.removed THEN stop_tracking(S2) ELSE S2
         IN [st |-> S3, ret |-> TRUE]
    ELSE [st |-> S, ret |-> FALSE]

\* do_restore_word retyping the displayed word.
do_restore_word_display(S) ==
    LET n == get_backspace_count(S, TRUE)
        S1 == send_string(send_backspace(S, n), S.display_buffer)
    IN replace(S1, S.display_buffer)

\* do_restore_word
do_restore_word(S) ==
    LET n == get_backspace_count(S, TRUE)
        S1 == send_string(send_backspace(S, n), S.buffer)
    IN replace(S1, S.buffer)

\* do_macro_replace
do_macro_replace(S, target) ==
    LET n == get_backspace_count(S, TRUE)
        S1 == send_string(send_backspace(S, n), target)
    IN replace(S1, target)


-----------------------------------------------------------------------------
(* ConfigStore (config.rs) and the per-application mode *)

is_vietnamese_app(S, app) == \E i \in 1..Len(S.vn_apps) : S.vn_apps[i] = app

is_english_app(S, app) == \E i \in 1..Len(S.en_apps) : S.en_apps[i] = app

Retain(list, app) ==
    LET Keep(x) == x # app IN SelectSeq(list, Keep)

\* add_vietnamese_app that leaves the English list as it is.
add_vietnamese_app_only(S, app) ==
    [S EXCEPT !.vn_apps = Append(@, app)]

\* ConfigStore::add_vietnamese_app
add_vietnamese_app(S, app) ==
    LET S1 == IF is_english_app(S, app)
              THEN [S EXCEPT !.en_apps = Retain(@, app)]
              ELSE S
    IN [S1 EXCEPT !.vn_apps = Append(@, app)]

\* ConfigStore::add_english_app
add_english_app(S, app) ==
    LET S1 == IF is_vietnamese_app(S, app)
              THEN [S EXCEPT !.vn_apps = Retain(@, app)]
              ELSE S
    IN [S1 EXCEPT !.en_apps = Append(@, app)]

\* InputState::toggle_vietnamese
toggle_vietnamese(S) ==
    LET S1 == [S EXCEPT !.enabled = ~S.enabled]
        S2 == IF S1.enabled THEN add_vietnamese_app(S1, S1.active_app)
              ELSE add_english_app(S1, S1.active_app)
    IN new_word(S2)

\* update_active_app that looks at the Vietnamese list only.
update_active_app_vn_only(S, app) ==
    LET S1 == [S EXCEPT !.active_app = app]
    IN IF is_vietnamese_app(S1, app) THEN [S1 EXCEPT !.enabled = TRUE]
       ELSE S1

\* InputState::update_active_app; app is get_active_app_name().
update_active_app(S, app) ==
    LET S1 == [S EXCEPT !.active_app = app]
        S2 == IF is_vietnamese_app(S1, app) THEN [S1 EXCEPT !.enabled = TRUE]
              ELSE S1
    IN IF is_english_app(S2, app) THEN [S2 EXCEPT !.enabled = FALSE] ELSE S2

-----------------------------------------------------------------------------
(* Hotkey (hotkey.rs) *)

NoKey == "NONE"

\* is_match comparing the modifiers only.
is_match_modifiers_only(hk, modifiers, keycode) ==
    hk.modifiers = modifiers \ {MODIFIER_CAPSLOCK}

\* is_match keeping caps lock in the observed modifiers.
is_match_with_capslock(hk, modifiers, keycode) ==
    LET letter_matched ==
            \/ keycode = hk.keycode
            \/ /\ keycode # NoKey
               /\ hk.keycode # NoKey
               /\ eq_ignore_ascii_case(keycode, hk.keycode)
    IN hk.modifiers = modifiers /\ letter_matched

\* Hotkey::is_match; keycode is NoKey for None.
is_match(hk, modifiers, keycode) ==
    LET m == modifiers \ {MODIFIER_CAPSLOCK}
        letter_matched ==
            \/ keycode = hk.keycode
            \/ /\ keycode # NoKey
               /\ hk.keycode # NoKey
               /\ eq_ignore_ascii_case(keycode, hk.keycode)
    IN hk.modifiers = m /\ letter_matched


-----------------------------------------------------------------------------
(* main.rs: event_handler *)

\* A pressed key: PressedKey::Char(c), PressedKey::Raw(code) or None.
CharKey(c) == [kind |-> "Char", code |-> c]
RawKey(k) == [kind |-> "Raw", code |-> k]
NoneKey == [kind |-> "None", code |-> NoKey]

\* main.rs:110-113
pressed_key_code(pressed_key) ==
    IF pressed_key.kind = "Char" THEN pressed_key.code ELSE NoKey

\* The hotkey matching without the circuit breaker.
HotkeyMatching_unbroken(event_type, pressed_key, modifiers) ==
    LET released == event_type = "FlagsChanged" /\ modifiers = {}
        mods1 == IF event_type # "FlagsChanged" THEN HOTKEY_MODIFIERS
                 ELSE IF modifiers = {} THEN {}
                 ELSE HOTKEY_MODIFIERS \cup modifiers
    IN [fire |-> released /\ HOTKEY_MATCHING, modifiers |-> mods1,
        matching |-> is_match(hotkey, mods1, pressed_key_code(pressed_key)),
        circuit_break |-> FALSE]

\* main.rs:115-135: the hotkey matching.  fire tells whether it toggles.
HotkeyMatching(event_type, pressed_key, modifiers) ==
    LET released == event_type = "FlagsChanged" /\ modifiers = {}
        fire == /\ released
                /\ HOTKEY_MATCHING
                /\ ~HOTKEY_MATCHING_CIRCUIT_BREAK
        mods1 == IF event_type # "FlagsChanged" THEN HOTKEY_MODIFIERS
                 ELSE IF modifiers = {} THEN {}
                 ELSE HOTKEY_MODIFIERS \cup modifiers
        matching1 == IF released THEN FALSE ELSE HOTKEY_MATCHING
        break1 == IF released THEN FALSE ELSE HOTKEY_MATCHING_CIRCUIT_BREAK
        is_hotkey_matched ==
            is_match(hotkey, mods1, pressed_key_code(pressed_key))
    IN [fire |-> fire, modifiers |-> mods1, matching |-> is_hotkey_matched,
        circuit_break |-> break1 \/ (matching1 /\ ~is_hotkey_matched)]

WordBoundaryKeys == {KEY_ENTER, KEY_TAB, KEY_SPACE, KEY_ESCAPE}

\* main.rs:156-181; valid is vi::validation::is_valid_word(display_buffer).
WordBoundaryBranch(S, keycode, valid) ==
    LET is_valid_word == valid
        is_allowed == is_allowed_word(S.display_buffer)
        is_transformed_word == S.buffer # S.display_buffer
        S1 == IF is_transformed_word /\ ~is_valid_word /\ ~is_allowed
              THEN do_restore_word(S)
              ELSE S
        S2 == IF previous_word_is_stop_tracking_words(S1)
              THEN clear_previous_word(S1)
              ELSE S1
        target == IF keycode = KEY_TAB \/ keycode = KEY_SPACE
                  THEN get_macro_target(S2)
                  ELSE {}
        S3 == IF target # {}
              THEN do_macro_replace(S2, CHOOSE x \in target : TRUE)
              ELSE S2
    IN [st |-> new_word(S3), ret |-> FALSE, save |-> TRUE]

\* The Delete branch reporting the key as handled.
DeleteBranch_handled(S, modifiers) ==
    IF modifiers # {} /\ ~is_shift(modifiers)
    THEN [st |-> new_word(S), ret |-> TRUE, save |-> TRUE]
    ELSE [st |-> pop(S), ret |-> TRUE, save |-> TRUE]

\* main.rs:182-188
DeleteBranch(S, modifiers) ==
    IF modifiers # {} /\ ~is_shift(modifiers)
    THEN [st |-> new_word(S), ret |-> FALSE, save |-> TRUE]
    ELSE [st |-> pop(S), ret |-> FALSE, save |-> TRUE]

\* The character branch pushing a special character too.
CharacterBranch_pushes_special(S, c, modifiers, eng) ==
    IF c \in SpecialChars \/ (is_numeric(c) /\ is_shift(modifiers))
    THEN [st |-> new_word(push(S, c)), ret |-> FALSE, save |-> TRUE]
    ELSE IF is_super(modifiers) \/ is_alt(modifiers)
    THEN [st |-> new_word(S), ret |-> FALSE, save |-> TRUE]
    ELSE IF is_tracking(S)
    THEN LET S1 == push(S, IF is_shift(modifiers) \/ is_capslock(modifiers)
                           THEN to_ascii_uppercase(c)
                           ELSE c)
             R == do_transform_keys(S1, FALSE, eng)
         IN [st |-> stop_tracking_if_needed(R.st), ret |-> R.ret,
             save |-> FALSE]
    ELSE [st |-> S, ret |-> FALSE, save |-> TRUE]

\* The character branch taking a key with super or alt as a plain one.
CharacterBranch_chord_typed(S, c, modifiers, eng) ==
    IF c \in SpecialChars \/ (is_numeric(c) /\ is_shift(modifiers))
    THEN LET S1 == IF is_numeric(c) THEN push(S, c) ELSE S
         IN [st |-> new_word(S1), ret |-> FALSE, save |-> TRUE]
    ELSE IF is_tracking(S)
    THEN LET S1 == push(S, IF is_shift(modifiers) \/ is_capslock(modifiers)
                           THEN to_ascii_uppercase(c)
                           ELSE c)
             R == do_transform_keys(S1, FALSE, eng)
         IN [st |-> stop_tracking_if_needed(R.st), ret |-> R.ret,
             save |-> FALSE]
    ELSE [st |-> S, ret |-> FALSE, save |-> TRUE]

\* main.rs:189-215; eng is what transform_keys returns after the push.
CharacterBranch(S, c, modifiers, eng) ==
    IF c \in SpecialChars \/ (is_numeric(c) /\ is_shift(modifiers))
    THEN LET S1 == IF is_numeric(c) THEN push(S, c) ELSE S
         IN [st |-> new_word(S1), ret |-> FALSE, save |-> TRUE]
    ELSE IF is_super(modifiers) \/ is_alt(modifiers)
    THEN [st |-> new_word(S), ret |-> FALSE, save |-> TRUE]
    ELSE IF is_tracking(S)
    THEN LET S1 == push(S, IF is_shift(modifiers) \/ is_capslock(modifiers)
                           THEN to_ascii_uppercase(c)
                           ELSE c)
             R == do_transform_keys(S1, FALSE, eng)
         IN [st |-> stop_tracking_if_needed(R.st), ret |-> R.ret,
             save |-> FALSE]
    ELSE [st |-> S, ret |-> FALSE, save |-> TRUE]

\* main.rs:217-228
DisabledBranch(S, keycode, modifiers) ==
    IF keycode \in WordBoundaryKeys \/ modifiers # {}
    THEN [st |-> new_word(S), ret |-> FALSE, save |-> TRUE]
    ELSE [st |-> S, ret |-> FALSE, save |-> TRUE]

\* The raw key branch leaving the left and right arrows alone.
RawBranch_up_down_only(S, raw_keycode) ==
    IF raw_keycode = RAW_KEY_GLOBE
    THEN [st |-> toggle_vietnamese(S), ret |-> TRUE, save |-> FALSE]
    ELSE IF raw_keycode \in {RAW_ARROW_UP, RAW_ARROW_DOWN}
    THEN [st |-> new_word(S), ret |-> FALSE, save |-> TRUE]
    ELSE [st |-> S, ret |-> FALSE, save |-> TRUE]

\* main.rs:140-152
RawBranch(S, raw_keycode) ==
    IF raw_keycode = RAW_KEY_GLOBE
    THEN [st |-> toggle_vietnamese(S), ret |-> TRUE, save |-> FALSE]
    ELSE IF raw_keycode \in {RAW_ARROW_UP, RAW_ARROW_DOWN, RAW_ARROW_LEFT,
                             RAW_ARROW_RIGHT}
    THEN [st |-> new_word(S), ret |-> FALSE, save |-> TRUE]
    ELSE [st |-> S, ret |-> FALSE, save |-> TRUE]

\* main.rs:232-245
NoneBranch(S, modifiers) ==
    IF previous_modifiers = {}
    THEN LET S1 == IF is_control(modifiers)
                   THEN set_temporary_disabled(
                            IF S.buffer # <<>> THEN do_restore_word(S) ELSE S)
                   ELSE S
             S2 == IF is_super(modifiers) THEN new_word(S1) ELSE S1
         IN [st |-> S2, ret |-> FALSE, save |-> TRUE]
    ELSE [st |-> S, ret |-> FALSE, save |-> TRUE]

\* main.rs:137-249: the match on pressed_key
KeyMatch(S, pressed_key, modifiers, valid, eng) ==
    CASE pressed_key.kind = "Raw" -> RawBranch(S, pressed_key.code)
      [] pressed_key.kind = "Char" ->
            IF ~is_enabled(S)
            THEN DisabledBranch(S, pressed_key.code, modifiers)
            ELSE IF pressed_key.code \in WordBoundaryKeys
            THEN WordBoundaryBranch(S, pressed_key.code, valid)
            ELSE IF pressed_key.code = KEY_DELETE
            THEN DeleteBranch(S, modifiers)
            ELSE CharacterBranch(S, pressed_key.code, modifiers, eng)
      [] OTHER -> NoneBranch(S, modifiers)

\* event_handler (main.rs:103-250)
event_handler(S, event_type, pressed_key, modifiers, valid, eng) ==
    LET H == HotkeyMatching(event_type, pressed_key, modifiers)
        S1 == IF H.fire THEN toggle_vietnamese(S) ELSE S
        R == KeyMatch(S1, pressed_key, modifiers, valid, eng)
    IN [st |-> R.st, ret |-> R.ret, hk |-> H,
        previous_modifiers |-> IF R.save THEN modifiers
                               ELSE previous_modifiers]


-----------------------------------------------------------------------------
(* The environment: the keyboard, the OS and the focused text field *)

\* The character a printable key types with these modifiers (main.rs:204).
TypedChar(c, modifiers) ==
    IF is_shift(modifiers) \/ is_capslock(modifiers)
    THEN to_ascii_uppercase(c)
    ELSE c

\* Whether event_handler pushes this key and runs the engine (main.rs:202).
IsTrackedChar(S, pressed_key, modifiers) ==
    /\ pressed_key.kind = "Char"
    /\ is_enabled(S)
    /\ pressed_key.code \notin WordBoundaryKeys \cup {KEY_DELETE}
    /\ ~(pressed_key.code \in SpecialChars
           \/ (is_numeric(pressed_key.code) /\ is_shift(modifiers)))
    /\ ~(is_super(modifiers) \/ is_alt(modifiers))
    /\ is_tracking(S)

NoEngine == [ok |-> FALSE, output |-> <<>>, removed |-> FALSE]

\* The answers the engine can give to the call this key leads to.
EngineAnswers(S, pressed_key, modifiers) ==
    IF IsTrackedChar(S, pressed_key, modifiers)
    THEN transform_keys(push(S, TypedChar(pressed_key.code, modifiers)))
    ELSE {NoEngine}

\* The tracked word on screen once the OS has handled the event itself:
\* an event the handler reports as handled (true) is dropped, a Delete
\* removes the last character, a character key that is tracked types its
\* character.  (st is the state the handler left, S the one it found.)
OsApplies(S, R, pressed_key, modifiers) ==
    IF R.ret THEN R.st.screen
    ELSE IF pressed_key.kind = "Char" /\ pressed_key.code = KEY_DELETE
    THEN PopChar(R.st.screen)
    ELSE IF IsTrackedChar(S, pressed_key, modifiers) /\ is_tracking(R.st)
    THEN Append(R.st.screen, TypedChar(pressed_key.code, modifiers))
    ELSE R.st.screen

\* The hotkey chord as the user presses it, caps lock set aside: "idle"
\* (nothing held), "mods" (modifiers of the hotkey pressed, none released),
\* "keyed" (the hotkey's key pressed while exactly its modifiers are held),
\* "rel" (modifiers being released after that), "broken" (anything else
\* happened), and, once all modifiers are released, "done_ok" after
\* keyed/rel and "done_other" otherwise.  fired counts the toggles of the
\* hotkey matching since the first modifier was pressed; keys are the keys
\* pressed since then, each with whether exactly the hotkey's modifiers
\* were held (full); direct tells that the modifiers were released all at
\* once right after the hotkey's key; seen are the modifiers held at some
\* time since then and downs the kinds of the keys pressed since then,
\* each with whether exactly the hotkey's modifiers were held.
ChordNext(event_type, pressed_key, modifiers, fire) ==
    LET m == modifiers \ {MODIFIER_CAPSLOCK}
        h == held \ {MODIFIER_CAPSLOCK}
        fresh == chord.phase \in {"idle", "done_ok", "done_other"}
        count == (IF fresh THEN 0 ELSE chord.fired) + (IF fire THEN 1 ELSE 0)
        phase ==
            IF event_type = "FlagsChanged" THEN
                IF m = {} THEN
                    IF chord.phase \in {"keyed", "rel"} THEN "done_ok"
                    ELSE IF fresh THEN "idle"
                    ELSE "done_other"
                ELSE IF fresh \/ chord.phase = "mods" THEN
                    IF h \subseteq m /\ m \subseteq hotkey.modifiers
                    THEN "mods" ELSE "broken"
                ELSE IF chord.phase \in {"keyed", "rel"} THEN
                    IF m \subseteq h THEN "rel" ELSE "broken"
                ELSE "broken"
            ELSE IF /\ event_type = "KeyDown"
                    /\ chord.phase \in {"mods", "keyed"}
                    /\ pressed_key.kind = "Char"
                    /\ pressed_key.code = hotkey.keycode
                    /\ m = hotkey.modifiers
                 THEN "keyed"
            ELSE IF fresh THEN "idle"
            ELSE "broken"
        pressed == IF event_type = "KeyDown" /\ pressed_key.kind = "Char"
                   THEN {[code |-> pressed_key.code,
                          full |-> m = hotkey.modifiers]}
                   ELSE {}
    IN [phase |-> phase, fired |-> count,
        keys |-> (IF fresh THEN {} ELSE chord.keys) \cup pressed,
        direct |-> phase = "done_ok" /\ chord.phase = "keyed",
        seen |-> (IF fresh THEN {} ELSE chord.seen)
                 \cup (IF event_type = "FlagsChanged" THEN m ELSE {}),
        downs |-> (IF fresh THEN {} ELSE chord.downs)
                  \cup (IF event_type = "KeyDown"
                        THEN {[kind |-> pressed_key.kind,
                               full |-> m = hotkey.modifiers]}
                        ELSE {})]

\* One call of event_handler and what the OS then does with the event.
Deliver(event_type, pressed_key, modifiers, sel, valid, eng) ==
    \E S \in {Cur(sel)} :
    \E R \in {event_handler(S, event_type, pressed_key, modifiers, valid,
                             eng)} :
       /\ buffer' = R.st.buffer
       /\ display_buffer' = R.st.display_buffer
       /\ previous_word' = R.st.previous_word
       /\ enabled' = R.st.enabled
       /\ should_track' = R.st.should_track
       /\ temporary_disabled' = R.st.temporary_disabled
       /\ active_app' = R.st.active_app
       /\ vn_apps' = R.st.vn_apps
       /\ en_apps' = R.st.en_apps
       /\ previous_modifiers' = R.previous_modifiers
       /\ HOTKEY_MODIFIERS' = R.hk.modifiers
       /\ HOTKEY_MATCHING' = R.hk.matching
       /\ HOTKEY_MATCHING_CIRCUIT_BREAK' = R.hk.circuit_break
       /\ screen' = OsApplies(S, R, pressed_key, modifiers)
       /\ ev' = [type |-> event_type, key |-> pressed_key,
                 modifiers |-> modifiers, sel |-> sel /\ R.st.sent # <<>>,
                 valid |-> valid /\ buffer # display_buffer, eng |-> eng]
       /\ ret' = R.ret
       /\ sent' = R.st.sent
       /\ closed' = R.st.closed
       /\ typed' = R.st.typed
       /\ UNCHANGED <<is_macro_enabled, macro_table, hotkey,
                      is_auto_toggle_enabled, method, config, listener,
                      KEYBOARD_LAYOUT_CHARACTER_MAP>>

\* A key-down of a printable key (macos.rs:275-288 with get_char's Char).
KeyCharacter(c) ==
    /\ \E sel \in BOOLEAN :
         \E eng \in EngineAnswers(Cur(sel), CharKey(c), held) :
            Deliver("KeyDown", CharKey(c), held, sel, FALSE, eng)
    /\ UNCHANGED held

\* A key-down of Enter, Tab, Space or Escape.
KeyBoundary(k) ==
    /\ \E sel \in BOOLEAN, valid \in BOOLEAN :
            Deliver("KeyDown", CharKey(k), held, sel, valid, NoEngine)
    /\ UNCHANGED held

\* A key-down of Delete.
KeyDelete ==
    /\ Deliver("KeyDown", CharKey(KEY_DELETE), held, FALSE, FALSE, NoEngine)
    /\ UNCHANGED held

\* A key-down of a key get_char gives as PressedKey::Raw.
KeyRaw(k) ==
    /\ Deliver("KeyDown", RawKey(k), held, FALSE, FALSE, NoEngine)
    /\ UNCHANGED held

\* A modifier key goes down or up (macos.rs:289-291).
FlagsChanged(m) ==
    /\ m # held
    /\ held' = m
    /\ \E sel \in BOOLEAN :
            Deliver("FlagsChanged", NoneKey, m, sel, FALSE, NoEngine)

\* A mouse button goes down (macos.rs:292-294).
MouseDown ==
    /\ Deliver("Other", NoneKey, {}, FALSE, FALSE, NoEngine)
    /\ UNCHANGED held

\* The macro checkbox of the settings window is clicked (ui.rs:341-343):
\* InputState::toggle_macro_enabled.  No key event is handled.
ToggleMacroEnabled ==
    /\ is_macro_enabled' = ~is_macro_enabled
    /\ ev' = [type |-> "Settings", key |-> NoneKey, modifiers |-> {},
              sel |-> FALSE, valid |-> FALSE, eng |-> NoEngine]
    /\ ret' = FALSE
    /\ sent' = <<>>
    /\ closed' = <<>>
    /\ UNCHANGED <<buffer, display_buffer, previous_word, enabled,
                   should_track, macro_table, active_app, vn_apps, en_apps,
                   is_auto_toggle_enabled, hotkey, temporary_disabled,
                   previous_modifiers, HOTKEY_MODIFIERS, HOTKEY_MATCHING,
                   HOTKEY_MATCHING_CIRCUIT_BREAK, held, screen, typed,
                   method, config, listener, KEYBOARD_LAYOUT_CHARACTER_MAP>>

-----------------------------------------------------------------------------
(* Strings of the configuration.  A string is the sequence of its          *)
(* characters; the key constants KEY_ENTER, KEY_TAB, KEY_DELETE and        *)
(* KEY_ESCAPE are single characters.                                       *)

LowerLetters ==
    <<"a", "b", "c", "d", "e", "f", "g", "h", "i", "j", "k", "l", "m", "n",
      "o", "p", "q", "r", "s", "t", "u", "v", "w", "x", "y", "z">>

UpperLetters ==
    <<"A", "B", "C", "D", "E", "F", "G", "H", "I", "J", "K", "L", "M", "N",
      "O", "P", "Q", "R", "S", "T", "U", "V", "W", "X", "Y", "Z">>

\* str::to_uppercase, on ASCII letters
to_uppercase(s) ==
    [i \in 1..Len(s) |->
        IF \E k \in 1..26 : LowerLetters[k] = s[i]
        THEN UpperLetters[CHOOSE k \in 1..26 : LowerLetters[k] = s[i]]
        ELSE s[i]]

\* str::to_ascii_lowercase, on a whole string
str_to_ascii_lowercase(s) ==
    [i \in 1..Len(s) |->
        IF \E k \in 1..26 : UpperLetters[k] = s[i]
        THEN LowerLetters[CHOOSE k \in 1..26 : UpperLetters[k] = s[i]]
        ELSE s[i]]

\* str::trim: the blanks at both ends are dropped
RECURSIVE trim(_)
trim(s) ==
    IF s # <<>> /\ Head(s) = " " THEN trim(Tail(s))
    ELSE IF s # <<>> /\ s[Len(s)] = " " THEN trim(SubSeq(s, 1, Len(s) - 1))
    ELSE s

\* str::split('+'): the pieces between the plus signs, empty ones included
RECURSIVE split(_)
split(s) ==
    IF \E i \in 1..Len(s) : s[i] = "+"
    THEN LET i == CHOOSE i \in 1..Len(s) :
                    s[i] = "+" /\ \A j \in 1..(i - 1) : s[j] # "+"
         IN <<SubSeq(s, 1, i - 1)>> \o split(SubSeq(s, i + 1, Len(s)))
    ELSE <<s>>

\* from_str_tokens keeping the first key named: a later token that names a
\* key does not replace it.
RECURSIVE from_str_tokens_first_key(_, _)
from_str_tokens_first_key(tokens, hk) ==
    IF tokens = <<>> THEN hk
    ELSE LET token == to_uppercase(trim(Head(tokens)))
             next ==
               CASE token = <<"S", "H", "I", "F", "T">> ->
                        [hk EXCEPT !.modifiers = @ \cup {MODIFIER_SHIFT}]
                 [] token = <<"A", "L", "T">> ->
                        [hk EXCEPT !.modifiers = @ \cup {MODIFIER_ALT}]
                 [] token = <<"S", "U", "P", "E", "R">> ->
                        [hk EXCEPT !.modifiers = @ \cup {MODIFIER_SUPER}]
                 [] token = <<"C", "T", "R", "L">> ->
                        [hk EXCEPT !.modifiers = @ \cup {MODIFIER_CONTROL}]
                 [] hk.keycode # NoKey -> hk
                 [] token = <<"E", "N", "T", "E", "R">> ->
                        [hk EXCEPT !.keycode = KEY_ENTER]
                 [] token = <<"S", "P", "A", "C", "E">> ->
                        [hk EXCEPT !.keycode = KEY_SPACE]
                 [] token = <<"T", "A", "B">> ->
                        [hk EXCEPT !.keycode = KEY_TAB]
                 [] token = <<"D", "E", "L", "E", "T", "E">> ->
                        [hk EXCEPT !.keycode = KEY_DELETE]
                 [] token = <<"E", "S", "C">> ->
                        [hk EXCEPT !.keycode = KEY_ESCAPE]
                 [] OTHER ->
                        [hk EXCEPT !.keycode = IF token = <<>> THEN NoKey
                                               ELSE token[Len(token)]]
         IN from_str_tokens_first_key(Tail(tokens), next)

\* The closure of Hotkey::from_str (hotkey.rs:19-32), token after token.
RECURSIVE from_str_tokens(_, _)
from_str_tokens(tokens, hk) ==
    IF tokens = <<>> THEN hk
    ELSE LET token == to_uppercase(trim(Head(tokens)))
             next ==
               CASE token = <<"S", "H", "I", "F", "T">> ->
                        [hk EXCEPT !.modifiers = @ \cup {MODIFIER_SHIFT}]
                 [] token = <<"A", "L", "T">> ->
                        [hk EXCEPT !.modifiers = @ \cup {MODIFIER_ALT}]
                 [] token = <<"S", "U", "P", "E", "R">> ->
                        [hk EXCEPT !.modifiers = @ \cup {MODIFIER_SUPER}]
                 [] token = <<"C", "T", "R", "L">> ->
                        [hk EXCEPT !.modifiers = @ \cup {MODIFIER_CONTROL}]
                 [] token = <<"E", "N", "T", "E", "R">> ->
                        [hk EXCEPT !.keycode = KEY_ENTER]
                 [] token = <<"S", "P", "A", "C", "E">> ->
                        [hk EXCEPT !.keycode = KEY_SPACE]
                 [] token = <<"T", "A", "B">> ->
                        [hk EXCEPT !.keycode = KEY_TAB]
                 [] token = <<"D", "E", "L", "E", "T", "E">> ->
                        [hk EXCEPT !.keycode = KEY_DELETE]
                 [] token = <<"E", "S", "C">> ->
                        [hk EXCEPT !.keycode = KEY_ESCAPE]
                 [] OTHER ->
                        [hk EXCEPT !.keycode = IF token = <<>> THEN NoKey
                                               ELSE token[Len(token)]]
         IN from_str_tokens(Tail(tokens), next)

\* Hotkey::from_str
from_str(input) ==
    from_str_tokens(split(input), [modifiers |-> {}, keycode |-> NoKey])

\* The key sequence the settings window makes of a hotkey (ui.rs:329-337,
\* with the Display of KeyModifier, platform/mod.rs:37-56).
hotkey_string(hk) ==
    (IF is_super(hk.modifiers) THEN <<"s", "u", "p", "e", "r", "+">>
     ELSE <<>>)
    \o (IF is_control(hk.modifiers) THEN <<"c", "t", "r", "l", "+">>
        ELSE <<>>)
    \o (IF is_alt(hk.modifiers) THEN <<"a", "l", "t", "+">> ELSE <<>>)
    \o (IF is_shift(hk.modifiers) THEN <<"s", "h", "i", "f", "t", "+">>
        ELSE <<>>)
    \o (IF is_capslock(hk.modifiers)
        THEN <<"c", "a", "p", "s", "l", "o", "c", "k", "+">>
        ELSE <<>>)
    \o (CASE hk.keycode = KEY_SPACE -> <<"s", "p", "a", "c", "e">>
          [] hk.keycode = NoKey -> <<>>
          [] OTHER -> <<hk.keycode>>)

\* TypingMethod::from_str
TypingMethod_from_str(s) ==
    IF str_to_ascii_lowercase(s) = <<"v", "n", "i">> THEN "vni" ELSE "telex"

\* The Display of TypingMethod
TypingMethod_to_string(m) ==
    IF m = "vni" THEN <<"v", "n", "i">> ELSE <<"t", "e", "l", "e", "x">>

\* The ConfigStore a state with this method, hotkey and macro table was
\* constructed from: InputState::new takes the three from it
\* (input.rs:165-179).
ConfigRead ==
    config = [hotkey |-> hotkey_string(hotkey),
              method |-> TypingMethod_to_string(method),
              is_macro_enabled |-> TRUE,
              macro_table |-> macro_table]

\* The characters get_char looks up: PREDEFINED_CHARS (input.rs:28-32), of
\* which the model has these, in the order build_keyboard_layout_map
\* inserts them.
PREDEFINED_CHARS == <<"a", "1", "s", ";", "x", "b">>

-----------------------------------------------------------------------------
(* The settings: the construction from the config file and the operations *)
(* of the settings window and of the system tray.  The ConfigStore setters *)
(* end with save(), which writes every field to the file                   *)
(* (config.rs:236-238, 60-92): config is the store and what the file       *)
(* holds.                                                                  *)

\* No file at get_config_path(), or one File::open fails on (config.rs:109).
NoFile == [exists |-> FALSE, lines |-> <<>>]

\* A line of the file: what split_once(" = ") gives (config.rs:112).
Line(left, right) == [left |-> left, right |-> right]

\* ConfigStore::new after the lines of a file; a macros line holds either
\* a pair that parse_kv_string accepts or text that it refuses.
RECURSIVE read_lines(_, _)
read_lines(lines, c) ==
    IF lines = <<>> THEN c
    ELSE LET l == Head(lines)
             next ==
               CASE l.left = "hotkey" -> [c EXCEPT !.hotkey = l.right]
                 [] l.left = "method" -> [c EXCEPT !.method = l.right]
                 [] l.left = "is_macro_enabled" ->
                        [c EXCEPT !.is_macro_enabled =
                                      trim(l.right) = <<"t", "r", "u", "e">>]
                 [] l.left = "macros" ->
                        IF l.right = <<"unparsable">> THEN c
                        ELSE [c EXCEPT !.macro_table =
                                          (l.right[1] :> l.right[2]) @@ @]
                 [] OTHER -> c
         IN read_lines(Tail(lines), next)

\* ConfigStore::new
ConfigStore_new(file) ==
    LET defaults == [hotkey |-> <<"c", "t", "r", "l", "+",
                                  "s", "p", "a", "c", "e">>,
                     method |-> <<"t", "e", "l", "e", "x">>,
                     is_macro_enabled |-> FALSE,
                     macro_table |-> <<>>]
    IN IF file.exists THEN read_lines(file.lines, defaults) ELSE defaults

\* The program starts with this config file: ConfigStore::new, then
\* InputState::new (input.rs:165-179) and the layout map (main.rs:265).
Startup(file) ==
    LET c == ConfigStore_new(file)
    IN /\ config' = c
       /\ buffer' = <<>>
       /\ display_buffer' = <<>>
       /\ method' = TypingMethod_from_str(c.method)
       /\ hotkey' = from_str(c.hotkey)
       /\ enabled' = TRUE
       /\ should_track' = TRUE
       /\ previous_word' = <<>>
       /\ active_app' = ""
       /\ is_macro_enabled' = TRUE
       /\ macro_table' = c.macro_table
       /\ vn_apps' = <<>>
       /\ en_apps' = <<>>
       /\ is_auto_toggle_enabled' = FALSE
       /\ temporary_disabled' = FALSE
       /\ previous_modifiers' = {}
       /\ HOTKEY_MODIFIERS' = {}
       /\ HOTKEY_MATCHING' = FALSE
       /\ HOTKEY_MATCHING_CIRCUIT_BREAK' = FALSE
       /\ listener' = "idle"
       /\ KEYBOARD_LAYOUT_CHARACTER_MAP' =
                {PREDEFINED_CHARS[i] : i \in 1..Len(PREDEFINED_CHARS)}
       /\ held' = {}
       /\ screen' = <<>>
       /\ ev' = [type |-> "Startup", arg |-> file, key |-> NoneKey,
                 modifiers |-> {}, sel |-> FALSE, valid |-> FALSE,
                 eng |-> NoEngine]
       /\ ret' = FALSE
       /\ sent' = <<>>
       /\ closed' = <<>>
       /\ typed' = <<>>

\* An operation on INPUT_STATE that is no key event: it leaves the state
\* S, the method m, the hotkey hk, the macro table and the ConfigStore c.
Mutation(op, arg, S, m, hk, table, c) ==
    /\ buffer' = S.buffer
    /\ display_buffer' = S.display_buffer
    /\ previous_word' = S.previous_word
    /\ enabled' = S.enabled
    /\ should_track' = S.should_track
    /\ temporary_disabled' = S.temporary_disabled
    /\ active_app' = S.active_app
    /\ vn_apps' = S.vn_apps
    /\ en_apps' = S.en_apps
    /\ screen' = S.screen
    /\ typed' = S.typed
    /\ closed' = S.closed
    /\ method' = m
    /\ hotkey' = hk
    /\ macro_table' = table
    /\ config' = c
    /\ ev' = [type |-> op, arg |-> arg, key |-> NoneKey, modifiers |-> {},
              sel |-> FALSE, valid |-> FALSE, eng |-> NoEngine]
    /\ ret' = FALSE
    /\ sent' = <<>>
    /\ UNCHANGED <<is_macro_enabled, is_auto_toggle_enabled,
                   previous_modifiers, HOTKEY_MODIFIERS, HOTKEY_MATCHING,
                   HOTKEY_MATCHING_CIRCUIT_BREAK, held, listener,
                   KEYBOARD_LAYOUT_CHARACTER_MAP>>

\* InputState::set_method with ConfigStore::set_method
SetMethod(m) ==
    Mutation("set_method", m, new_word(Cur(FALSE)), m, hotkey, macro_table,
             [config EXCEPT !.method = TypingMethod_to_string(m)])

\* InputState::set_hotkey with ConfigStore::set_hotkey
SetHotkey(key_sequence) ==
    Mutation("set_hotkey", key_sequence, Cur(FALSE), method,
             from_str(key_sequence), macro_table,
             [config EXCEPT !.hotkey = key_sequence])

\* add_macro that inserts into the ConfigStore's table only.
AddMacro_config_only(from, to) ==
    Mutation("add_macro", <<from, to>>, Cur(FALSE), method, hotkey,
             macro_table,
             [config EXCEPT !.macro_table = (from :> to) @@ @])

\* InputState::add_macro with ConfigStore::add_macro
AddMacro(from, to) ==
    Mutation("add_macro", <<from, to>>, Cur(FALSE), method, hotkey,
             (from :> to) @@ macro_table,
             [config EXCEPT !.macro_table = (from :> to) @@ @])

\* InputState::delete_macro with ConfigStore::delete_macro
DeleteMacro(from) ==
    Mutation("delete_macro", from, Cur(FALSE), method, hotkey,
             [w \in DOMAIN macro_table \ {from} |-> macro_table[w]],
             [config EXCEPT !.macro_table =
                               [w \in DOMAIN @ \ {from} |-> @[w]]])

\* InputState::toggle_vietnamese from the tray or the window (ui.rs:211,
\* 245), with ConfigStore::add_vietnamese_app or add_english_app.
UiToggleVietnamese ==
    Mutation("toggle_vietnamese", <<>>, toggle_vietnamese(Cur(FALSE)),
             method, hotkey, macro_table, config)

-----------------------------------------------------------------------------
(* The threads.  main.rs:275-280 runs the event listener on a thread of    *)
(* its own, while the settings window, the tray and the UPDATE_UI command  *)
(* run on the UI thread.  INPUT_STATE and KEYBOARD_LAYOUT_CHARACTER_MAP    *)
(* are `static mut` values that both threads reach through `unsafe`,       *)
(* without a lock (input.rs:26, 90): the steps of the two threads          *)
(* interleave.  The listener handles a tracked character in two steps,     *)
(* around the call of the engine; listener is "idle" between events, the   *)
(* character being handled in between, and "panicked" once get_char has    *)
(* indexed a character that the map does not hold.                         *)

\* A step of a thread: it leaves the state S, the listener at l and the
\* layout map as map.
ThreadStep(op, arg, key, S, r, l, map) ==
    /\ buffer' = S.buffer
    /\ display_buffer' = S.display_buffer
    /\ previous_word' = S.previous_word
    /\ enabled' = S.enabled
    /\ should_track' = S.should_track
    /\ temporary_disabled' = S.temporary_disabled
    /\ active_app' = S.active_app
    /\ vn_apps' = S.vn_apps
    /\ en_apps' = S.en_apps
    /\ screen' = S.screen
    /\ typed' = S.typed
    /\ closed' = S.closed
    /\ sent' = S.sent
    /\ ret' = r
    /\ listener' = l
    /\ KEYBOARD_LAYOUT_CHARACTER_MAP' = map
    /\ ev' = [type |-> op, arg |-> arg, key |-> key, modifiers |-> {},
              sel |-> FALSE, valid |-> FALSE, eng |-> NoEngine]
    /\ UNCHANGED <<method, hotkey, macro_table, config, is_macro_enabled,
                   is_auto_toggle_enabled, previous_modifiers,
                   HOTKEY_MODIFIERS, HOTKEY_MATCHING,
                   HOTKEY_MATCHING_CIRCUIT_BREAK, held>>

\* The listener takes the key-down of the key of c: get_char reads the
\* layout map (macos.rs:109-160, key_map[&c] panics without the entry);
\* event_handler then pushes the character (main.rs:202-209).  arg is the
\* map that get_char found.
ListenerPush(c) ==
    /\ listener = "idle"
    /\ held = {}
    /\ IF c \in KEYBOARD_LAYOUT_CHARACTER_MAP
       THEN /\ IsTrackedChar(Cur(FALSE), CharKey(c), {})
            /\ ThreadStep("get_char", KEYBOARD_LAYOUT_CHARACTER_MAP,
                          CharKey(c), push(Cur(FALSE), c), FALSE, c,
                          KEYBOARD_LAYOUT_CHARACTER_MAP)
       ELSE ThreadStep("get_char", KEYBOARD_LAYOUT_CHARACTER_MAP,
                       CharKey(c), Cur(FALSE), FALSE, "panicked",
                       KEYBOARD_LAYOUT_CHARACTER_MAP)

\* The listener finishes the key it took: do_transform_keys and
\* stop_tracking_if_needed (main.rs:210-212), then the OS types the key
\* unless the handler has handled it.
ListenerTransform ==
    /\ listener \notin {"idle", "panicked"}
    /\ \E eng \in transform_keys(Cur(FALSE)) :
         LET R == do_transform_keys(Cur(FALSE), FALSE, eng)
             S == stop_tracking_if_needed(R.st)
         IN ThreadStep("transform", eng, CharKey(listener),
                       [S EXCEPT !.screen =
                                     IF ~R.ret /\ is_tracking(S)
                                     THEN Append(S.screen, listener)
                                     ELSE S.screen],
                       R.ret, "idle", KEYBOARD_LAYOUT_CHARACTER_MAP)

\* A step of rebuild_keyboard_layout_map on the UI thread (ui.rs:266):
\* map.clear() when the map is complete, the next insert otherwise.
RebuildStep ==
    LET full == {PREDEFINED_CHARS[i] : i \in 1..Len(PREDEFINED_CHARS)}
        next == PREDEFINED_CHARS[Cardinality(KEYBOARD_LAYOUT_CHARACTER_MAP)
                                     + 1]
        map == IF KEYBOARD_LAYOUT_CHARACTER_MAP = full THEN {}
               ELSE KEYBOARD_LAYOUT_CHARACTER_MAP \cup {next}
    IN ThreadStep("rebuild", map, NoneKey,
                  [Cur(FALSE) EXCEPT !.closed = closed], FALSE, listener,
                  map)

-----------------------------------------------------------------------------
(* The state after construction and the specifications *)

\* Hotkey::from_str("ctrl+space"), the default of ConfigStore::new.
DefaultHotkey == [modifiers |-> {MODIFIER_CONTROL}, keycode |-> KEY_SPACE]

\* The macro table read from the config file.
MacroTable == (<<"a", "s">> :> <<"x", "y">>) @@ (<<"a2">> :> <<"x">>)

InitCommon ==
    /\ buffer = <<>>
    /\ display_buffer = <<>>
    /\ previous_word = <<>>
    /\ enabled = TRUE
    /\ should_track = TRUE
    /\ is_macro_enabled = TRUE
    /\ method = "telex"
    /\ listener = "idle"
    /\ KEYBOARD_LAYOUT_CHARACTER_MAP =
            {PREDEFINED_CHARS[i] : i \in 1..Len(PREDEFINED_CHARS)}
    /\ vn_apps = <<>>
    /\ en_apps = <<>>
    /\ is_auto_toggle_enabled = FALSE
    /\ temporary_disabled = FALSE
    /\ previous_modifiers = {}
    /\ HOTKEY_MODIFIERS = {}
    /\ HOTKEY_MATCHING = FALSE
    /\ HOTKEY_MATCHING_CIRCUIT_BREAK = FALSE
    /\ held = {}
    /\ screen = <<>>
    /\ ev = [type |-> "Init", key |-> NoneKey, modifiers |-> {},
             sel |-> FALSE, valid |-> FALSE, eng |-> NoEngine]
    /\ ret = FALSE
    /\ sent = <<>>
    /\ closed = <<>>
    /\ typed = <<>>
    /\ chord = [phase |-> "idle", fired |-> 0, keys |-> {},
                direct |-> FALSE, seen |-> {}, downs |-> {}]
    /\ nevents = 0
    /\ chosen = <<>>

\* Typing: the focused application is Firefox or another one.
Init ==
    /\ InitCommon
    /\ macro_table = MacroTable
    /\ hotkey = DefaultHotkey
    /\ active_app \in {"", "Firefox"}
    /\ ConfigRead

\* The printable keys typed: two letters and a punctuation mark.
TypingChars == {"a", "s", ";"}

\* The digit typed, with shift held.
ShiftedDigits == {"1"}

\* The modifier keys pressed, one at a time.
TypingModifiers ==
    {MODIFIER_SHIFT, MODIFIER_CONTROL, MODIFIER_SUPER, MODIFIER_ALT}

\* The modifier keys pressed together.
TypingModifierPairs ==
    {{MODIFIER_SHIFT, MODIFIER_CONTROL}, {MODIFIER_SHIFT, MODIFIER_SUPER}}

\* The four arrow keys (main.rs:145-151).
ArrowKeys == {RAW_ARROW_UP, RAW_ARROW_DOWN, RAW_ARROW_LEFT, RAW_ARROW_RIGHT}

\* The keys get_char gives as PressedKey::Raw: the globe key, the arrow
\* keys and F1, a key code that get_char has no case for (macos.rs:162).
RawKeys == {RAW_KEY_GLOBE, "F1"} \cup ArrowKeys

\* One more event is counted, up to MaxEvents.
Counted ==
    /\ nevents < MaxEvents
    /\ nevents' = nevents + 1
    /\ UNCHANGED <<chord, chosen>>

Next ==
    \/ \E c \in TypingChars : Counted /\ KeyCharacter(c)
    \/ \E c \in ShiftedDigits :
            Counted /\ is_shift(held) /\ KeyCharacter(c)
    \/ \E k \in WordBoundaryKeys : Counted /\ KeyBoundary(k)
    \/ Counted /\ KeyDelete
    \/ \E k \in RawKeys : Counted /\ KeyRaw(k)
    \/ \E m \in {{}} \cup {{k} : k \in TypingModifiers}
                   \cup TypingModifierPairs :
            Counted /\ (m = {} \/ held = {}) /\ FlagsChanged(m)
    \/ Counted /\ MouseDown
    \/ Counted /\ ToggleMacroEnabled

Spec == Init /\ [][Next]_vars

-----------------------------------------------------------------------------
(* Typing with a macro table that has an entry for the empty word, as the  *)
(* config line  macros = ""="x"  gives it (config.rs:36-43, 127-131).      *)

EmptySourceMacroTable == (<<>> :> <<"x">>) @@ MacroTable

InitEmptyMacro ==
    /\ InitCommon
    /\ macro_table = EmptySourceMacroTable
    /\ hotkey = DefaultHotkey
    /\ active_app \in {"", "Firefox"}
    /\ ConfigRead

SpecEmptyMacro == InitEmptyMacro /\ [][Next]_vars

-----------------------------------------------------------------------------
(* Long words: one letter typed over and over, Enter, and Delete pressed  *)
(* on a displayed word of more than MAX_POSSIBLE_WORD_LENGTH bytes.        *)

InitLong ==
    /\ InitCommon
    /\ macro_table = MacroTable
    /\ hotkey = DefaultHotkey
    /\ active_app = ""
    /\ ConfigRead

Uncounted == UNCHANGED <<nevents, chord, chosen>>

NextLong ==
    \/ Uncounted /\ KeyCharacter("b")
    \/ /\ ByteLen(display_buffer) > MAX_POSSIBLE_WORD_LENGTH
       /\ Uncounted /\ KeyDelete
    \/ Uncounted /\ KeyBoundary(KEY_ENTER)

SpecLong == InitLong /\ [][NextLong]_vars

-----------------------------------------------------------------------------
(* The hard stop: typing goes on either from the state after construction *)
(* or from a word of MAX_POSSIBLE_WORD_LENGTH letters, each of which the   *)
(* engine has echoed.  The keys are two letters and the question mark,     *)
(* which a keyboard layout may give for an unshifted key (input.rs:92-101) *)
(* and which main.rs:190 does not take as punctuation.                     *)

TenLetters == [i \in 1..MAX_POSSIBLE_WORD_LENGTH |-> "b"]

\* The state after the letter b has been typed ten times.
AfterTenLetters ==
    /\ buffer = TenLetters
    /\ display_buffer = TenLetters
    /\ typed = TenLetters
    /\ screen = TenLetters
    /\ previous_word = <<>>
    /\ enabled = TRUE
    /\ should_track = TRUE
    /\ previous_modifiers = {}
    /\ HOTKEY_MODIFIERS = {}
    /\ HOTKEY_MATCHING = FALSE
    /\ HOTKEY_MATCHING_CIRCUIT_BREAK = FALSE
    /\ held = {}
    /\ ev = [type |-> "KeyDown", key |-> CharKey("b"), modifiers |-> {},
             sel |-> FALSE, valid |-> FALSE,
             eng |-> [ok |-> TRUE, output |-> TenLetters, removed |-> FALSE]]
    /\ ret = FALSE
    /\ sent = <<>>
    /\ closed = <<>>

InitStop ==
    /\ InitCommon \/ AfterTenLetters
    /\ is_macro_enabled = TRUE
    /\ method = "telex"
    /\ listener = "idle"
    /\ KEYBOARD_LAYOUT_CHARACTER_MAP =
            {PREDEFINED_CHARS[i] : i \in 1..Len(PREDEFINED_CHARS)}
    /\ vn_apps = <<>>
    /\ en_apps = <<>>
    /\ is_auto_toggle_enabled = FALSE
    /\ temporary_disabled = FALSE
    /\ chord = [phase |-> "idle", fired |-> 0, keys |-> {}, direct |-> FALSE,
                seen |-> {}, downs |-> {}]
    /\ nevents = 0
    /\ chosen = <<>>
    /\ macro_table = MacroTable
    /\ hotkey = DefaultHotkey
    /\ active_app = ""
    /\ ConfigRead

StopChars == {"b", "s", "?"}

NextStop ==
    \/ \E c \in StopChars : Counted /\ KeyCharacter(c)
    \/ Counted /\ KeyBoundary(KEY_SPACE)
    \/ Counted /\ KeyDelete
    \/ \E m \in {{}, {MODIFIER_SHIFT}} : Counted /\ FlagsChanged(m)

SpecStop == InitStop /\ [][NextStop]_vars

-----------------------------------------------------------------------------
(* The specification of the settings: the program starts with some config  *)
(* file, then the settings window and the tray change the settings.        *)

\* Key sequences of a hotkey: what the settings window writes, and what a
\* hand-edited file may hold (tokens in any order and case, blanks around
\* them, no key, several keys, a modifier twice).
HotkeyStrings ==
    LET plus == <<"+">>
        ctrl == <<"c", "t", "r", "l">>
        super == <<"s", "u", "p", "e", "r">>
        space == <<"s", "p", "a", "c", "e">>
    IN {ctrl \o plus \o space,
        space \o plus \o ctrl,
        <<"C", "t", "r", "l">> \o plus \o <<"S", "P", "A", "C", "E">>,
        super \o plus \o ctrl \o plus \o <<"x">>,
        <<"x">> \o plus \o super \o plus \o ctrl,
        ctrl \o plus \o <<"x">> \o plus \o super,
        <<" ">> \o ctrl \o <<" ", "+", " ", "x", " ">>,
        <<"a", "+", "b">>,
        <<"b", "+", "a">>,
        ctrl \o plus,
        plus \o ctrl,
        ctrl \o plus \o ctrl \o plus \o space,
        ctrl \o plus \o <<"s", "p">>,
        <<>>}

\* The lines of a config file.
ConfigLines ==
    {Line("hotkey", s) : s \in {<<"s", "u", "p", "e", "r", "+", "x">>,
                                 <<"c", "t", "r", "l", "+">>,
                                 <<"a", "+", "b">>, <<>>}}
    \cup {Line("method", s) : s \in {<<"v", "n", "i">>, <<"V", "N", "I">>,
                                     <<"t", "e", "l", "e", "x">>,
                                     <<"f", "o", "o">>, <<>>}}
    \cup {Line("is_macro_enabled", s) :
              s \in {<<"t", "r", "u", "e">>, <<"f", "a", "l", "s", "e">>}}
    \cup {Line("macros", <<<<"a", "s">>, <<"x", "y">>>>),
          Line("macros", <<"unparsable">>),
          Line("", <<>>),
          Line("unknown", <<"x">>)}

\* The config files: none, or up to MaxLines lines.
MaxLines == 2

ConfigFiles ==
    {NoFile}
    \cup {[exists |-> TRUE, lines |-> lines] :
              lines \in UNION {[1..n -> ConfigLines] : n \in 0..MaxLines}}

NextSettings ==
    \/ \E file \in ConfigFiles : nevents = 0 /\ Counted /\ Startup(file)
    \/ \E m \in {"telex", "vni"} : Counted /\ SetMethod(m)
    \/ \E s \in HotkeyStrings : Counted /\ SetHotkey(s)
    \/ \E w \in {<<"a", "s">>, <<"b">>} : Counted /\ AddMacro(w, <<"x">>)
    \/ \E w \in {<<"a", "s">>, <<"b">>} : Counted /\ DeleteMacro(w)
    \/ Counted /\ UiToggleVietnamese
    \/ Counted /\ ToggleMacroEnabled

SpecSettings == InitLong /\ [][NextSettings]_vars

-----------------------------------------------------------------------------
(* The specification of the threads: the listener handles key-downs while  *)
(* the UI thread changes the settings and rebuilds the layout map.         *)

ThreadChars == {"a", "s"}

NextThreads ==
    \/ \E c \in ThreadChars : Counted /\ ListenerPush(c)
    \/ Counted /\ ListenerTransform
    \/ \E c \in ThreadChars :
         /\ listener = "idle"
         /\ c \in KEYBOARD_LAYOUT_CHARACTER_MAP
         /\ ~IsTrackedChar(Cur(FALSE), CharKey(c), held)
         /\ Counted
         /\ KeyCharacter(c)
    \/ listener # "panicked" /\ Counted /\ RebuildStep
    \/ listener # "panicked" /\ Counted /\ UiToggleVietnamese
    \/ \E m \in {"telex", "vni"} :
         listener # "panicked" /\ Counted /\ SetMethod(m)

SpecThreads == InitLong /\ [][NextThreads]_vars

-----------------------------------------------------------------------------
(* The hotkey chord: modifier keys pressed and released in any order and  *)
(* in any grouping, the keys Space and x, and the mouse.                   *)

\* Hotkey::from_str("super+ctrl+space")
SuperCtrlSpace ==
    [modifiers |-> {MODIFIER_SUPER, MODIFIER_CONTROL}, keycode |-> KEY_SPACE]

InitHotkey ==
    /\ InitCommon
    /\ macro_table = MacroTable
    /\ hotkey \in {SuperCtrlSpace, DefaultHotkey}
    /\ active_app = ""
    /\ ConfigRead

\* The chord history follows the event.
Chorded(event_type, pressed_key, modifiers) ==
    /\ chord' = ChordNext(event_type, pressed_key, modifiers,
                          HotkeyMatching(event_type, pressed_key,
                                         modifiers).fire)
    /\ UNCHANGED <<nevents, chosen>>

NextHotkey ==
    \/ \E m \in SUBSET {MODIFIER_SUPER, MODIFIER_CONTROL} :
            Chorded("FlagsChanged", NoneKey, m) /\ FlagsChanged(m)
    \/ Chorded("KeyDown", CharKey(KEY_SPACE), held) /\ KeyBoundary(KEY_SPACE)
    \/ Chorded("KeyDown", CharKey("x"), held) /\ KeyCharacter("x")
    \/ Chorded("Other", NoneKey, {}) /\ MouseDown

SpecHotkey == InitHotkey /\ [][NextHotkey]_vars

-----------------------------------------------------------------------------
(* The chord of a hotkey that has modifiers only: "ctrl+shift", as         *)
(* Hotkey::from_str parses it (hotkey.rs:124-133), with alt as a further   *)
(* modifier, the key of ';', an arrow key and the mouse.                    *)

CtrlShift ==
    [modifiers |-> {MODIFIER_CONTROL, MODIFIER_SHIFT}, keycode |-> NoKey]

InitModifiersOnly ==
    /\ InitCommon
    /\ macro_table = MacroTable
    /\ hotkey = CtrlShift
    /\ active_app = ""
    /\ ConfigRead

NextModifiersOnly ==
    \/ \E m \in SUBSET {MODIFIER_CONTROL, MODIFIER_SHIFT, MODIFIER_ALT} :
            Chorded("FlagsChanged", NoneKey, m) /\ FlagsChanged(m)
    \/ Chorded("KeyDown", CharKey(";"), held) /\ KeyCharacter(";")
    \/ /\ Chorded("KeyDown", RawKey(RAW_ARROW_LEFT), held)
       /\ KeyRaw(RAW_ARROW_LEFT)
    \/ Chorded("Other", NoneKey, {}) /\ MouseDown

SpecModifiersOnly == InitModifiersOnly /\ [][NextModifiersOnly]_vars

-----------------------------------------------------------------------------
(* The hotkey chord with caps lock on from the start to the end: every    *)
(* event carries the caps-lock modifier (macos.rs:255-257), a mouse event  *)
(* excepted (macos.rs:292-294).                                            *)

InitCapsLock ==
    /\ InitCommon
    /\ macro_table = MacroTable
    /\ hotkey \in {SuperCtrlSpace, DefaultHotkey}
    /\ active_app = ""
    /\ ConfigRead

\* The modifiers observed when the keys of m are held and caps lock is on.
CapsLocked(m) == m \cup {MODIFIER_CAPSLOCK}

\* A key-down of a printable key, caps lock on.
CapsKeyCharacter(c) ==
    /\ \E sel \in BOOLEAN :
         \E eng \in EngineAnswers(Cur(sel), CharKey(c), CapsLocked(held)) :
            Deliver("KeyDown", CharKey(c), CapsLocked(held), sel, FALSE, eng)
    /\ UNCHANGED held

\* A key-down of Enter, Tab, Space or Escape, caps lock on.
CapsKeyBoundary(k) ==
    /\ \E sel \in BOOLEAN, valid \in BOOLEAN :
            Deliver("KeyDown", CharKey(k), CapsLocked(held), sel, valid,
                    NoEngine)
    /\ UNCHANGED held

\* A modifier key goes down or up, caps lock on.
CapsFlagsChanged(m) ==
    /\ m # held
    /\ held' = m
    /\ \E sel \in BOOLEAN :
            Deliver("FlagsChanged", NoneKey, CapsLocked(m), sel, FALSE,
                    NoEngine)

NextCapsLock ==
    \/ \E m \in SUBSET {MODIFIER_SUPER, MODIFIER_CONTROL} :
            /\ Chorded("FlagsChanged", NoneKey, CapsLocked(m))
            /\ CapsFlagsChanged(m)
    \/ /\ Chorded("KeyDown", CharKey(KEY_SPACE), CapsLocked(held))
       /\ CapsKeyBoundary(KEY_SPACE)
    \/ /\ Chorded("KeyDown", CharKey("x"), CapsLocked(held))
       /\ CapsKeyCharacter("x")
    \/ Chorded("Other", NoneKey, {}) /\ MouseDown

SpecCapsLock == InitCapsLock /\ [][NextCapsLock]_vars

-----------------------------------------------------------------------------
(* Hotkey::is_match called on its own: a hotkey of the configuration, then *)
(* calls with any observed modifiers and key.  ev records the arguments of *)
(* the last call and ret what it returned.                                 *)

\* Hotkey::from_str of modifiers and at most one key; a letter is kept in
\* upper case (hotkey.rs:19, 29-31).
MatchHotkeys ==
    {[modifiers |-> m, keycode |-> k] :
        m \in SUBSET {MODIFIER_SUPER, MODIFIER_CONTROL, MODIFIER_SHIFT},
        k \in {NoKey, KEY_SPACE, "X"}}

\* The observed modifier sets and keys of the calls.
MatchModifiers ==
    SUBSET {MODIFIER_SUPER, MODIFIER_CONTROL, MODIFIER_SHIFT,
            MODIFIER_CAPSLOCK}

MatchKeys == {NoKey, KEY_SPACE, "x", "X", "a"}

InitMatch ==
    /\ InitCommon
    /\ macro_table = MacroTable
    /\ hotkey \in MatchHotkeys
    /\ active_app = ""
    /\ ConfigRead

IsMatchCall(modifiers, keycode) ==
    /\ ev' = [type |-> "is_match",
              key |-> IF keycode = NoKey THEN NoneKey ELSE CharKey(keycode),
              modifiers |-> modifiers, sel |-> FALSE, valid |-> FALSE,
              eng |-> NoEngine]
    /\ ret' = is_match(hotkey, modifiers, keycode)
    /\ UNCHANGED <<buffer, display_buffer, previous_word, enabled,
                   should_track, is_macro_enabled, macro_table, active_app,
                   vn_apps, en_apps, is_auto_toggle_enabled, hotkey,
                   temporary_disabled, previous_modifiers, HOTKEY_MODIFIERS,
                   HOTKEY_MATCHING, HOTKEY_MATCHING_CIRCUIT_BREAK, held,
                   screen, sent, closed, typed, chord, nevents, chosen,
                   method, config, listener, KEYBOARD_LAYOUT_CHARACTER_MAP>>

NextMatch ==
    \E modifiers \in MatchModifiers, keycode \in MatchKeys :
        IsMatchCall(modifiers, keycode)

SpecMatch == InitMatch /\ [][NextMatch]_vars

-----------------------------------------------------------------------------
(* Kinds of events, told from the record of the last event *)

\* A key-down that main.rs:202-213 pushes when the word is tracked.
PlainKey(e) ==
    /\ e.type = "KeyDown"
    /\ IsTrackedChar([enabled |-> TRUE, should_track |-> TRUE], e.key,
                     e.modifiers)

\* A key-down of Enter, Tab, Space or Escape (main.rs:156).
BoundaryKey(e) ==
    /\ e.type = "KeyDown"
    /\ e.key.kind = "Char"
    /\ e.key.code \in WordBoundaryKeys

\* A key-down of Delete with no modifier held (main.rs:182-188).
PlainDelete(e) ==
    /\ e.type = "KeyDown"
    /\ e.key = CharKey(KEY_DELETE)
    /\ e.modifiers = {}

\* A key-down of Delete, whatever the modifiers (main.rs:182).
DeleteKey(e) == e.type = "KeyDown" /\ e.key = CharKey(KEY_DELETE)

\* A key-down of a punctuation or symbol character or of a shifted digit
\* (main.rs:190-191).
SpecialKey(e) ==
    /\ e.type = "KeyDown"
    /\ e.key.kind = "Char"
    /\ \/ e.key.code \in SpecialChars
       \/ is_numeric(e.key.code) /\ is_shift(e.modifiers)

\* Whether a target of the macro table is among the strings sent.
MacroSent(s) ==
    \E i \in 1..Len(s) :
        /\ s[i][1] = "str"
        /\ \E w \in DOMAIN macro_table : s[i][2] = macro_table[w]

\* The send_backspace and send_string calls of one reconciliation.
Reconciliation(n, s) == << <<"bs", n>>, <<"str", s>> >>

\* The backspaces for a displayed word: one more with a text selection.
Backspaces(word, sel) == Len(word) + (IF sel THEN 1 ELSE 0)

-----------------------------------------------------------------------------
(* Properties *)

C2_DisplayIsEngineOutput ==
    (PlainKey(ev) /\ ev.eng.ok /\ should_track)
        => display_buffer = ev.eng.output

RestoreDue(valid) ==
    /\ enabled
    /\ buffer # display_buffer
    /\ ~valid
    /\ ~is_allowed_word(display_buffer)

C5_MacroOnly ==
    [][(/\ BoundaryKey(ev')
        /\ ev'.key.code \in {KEY_TAB, KEY_SPACE}
        /\ enabled
        /\ is_macro_enabled
        /\ display_buffer \in DOMAIN macro_table)
            => sent' = Reconciliation(Backspaces(display_buffer, ev'.sel),
                                      macro_table[display_buffer])]_vars

\* Whether the typing buffer with this key pushed holds "ss".
MakesDoubleS(e) ==
    Contains(LowerStr(Append(buffer, TypedChar(e.key.code, e.modifiers))),
             <<"s", "s">>)

\* C6 as stated: once "ss" has suspended tracking and cleared the buffers,
\* the next letter keystroke is appended to the empty buffers and tracked.
C6_NextLetterTracked ==
    [][(/\ PlainKey(ev')
        /\ enabled
        /\ ~should_track
        /\ previous_word = <<"s", "s">>)
            => (should_track' /\ buffer' # <<>>)]_vars

\* C6: a tracked keystroke that makes the typing buffer hold "ss" suspends
\* tracking and clears both buffers; a letter keystroke that follows is not
\* tracked: tracking stays suspended and both buffers stay empty.
C6_HardStop ==
    [][/\ (PlainKey(ev') /\ enabled /\ should_track /\ MakesDoubleS(ev'))
            => (~should_track' /\ buffer' = <<>> /\ display_buffer' = <<>>)
       /\ (PlainKey(ev') /\ ~should_track)
            => (~should_track' /\ buffer' = <<>> /\ display_buffer' = <<>>)
      ]_vars

\* The letter a has been typed after "ss" suspended tracking.
C6_Witness ==
    /\ PlainKey(ev)
    /\ ev.key.code = "a"
    /\ previous_word = <<"s", "s">>
    /\ ~should_track
    /\ buffer = <<>>

\* C7 as stated, its particular case: a plain Delete while tracking is
\* suspended does not set should_track back to true.
C7_DeleteKeepsSuspended ==
    [][(PlainDelete(ev') /\ enabled /\ ~should_track) => ~should_track']_vars

\* C8 as stated: whenever the typing buffer is empty, should_track is true.
C8_EmptyIsTracked == (buffer = <<>>) => should_track

\* C8: the typing buffer is empty with should_track false only in the
\* suspended state: a step leads there only from there or by a plain
\* keystroke (whose hard-stop check, or removed tone mark, stops tracking);
\* every other event that leaves the typing buffer empty leaves
\* should_track true.
C8_EmptyUntrackedOnlySuspended ==
    [][(buffer' = <<>> /\ ~should_track')
            => (~should_track \/ (PlainKey(ev') /\ enabled))]_vars

\* Tracking has been suspended by "ss": the typing buffer is empty and
\* should_track is false.
C8_Witness ==
    /\ buffer = <<>>
    /\ ~should_track
    /\ ev.key.code = "s"
    /\ previous_word = <<"s", "s">>

C10_ChordTogglesOnce ==
    (hotkey = SuperCtrlSpace /\ chord.phase = "done_ok") => chord.fired = 1

\* An event at which all modifiers are released (main.rs:116).
Released(e) == e.type = "FlagsChanged" /\ e.modifiers = {}

\* The key x pressed while exactly the hotkey's modifiers are held.
ChordedX == [code |-> "x", full |-> TRUE]

\* C11: with the hotkey super+ctrl+space, a chord in which x is the only
\* key pressed, super and ctrl being held, does not toggle enabled: not at
\* the key press and not when the modifiers are released.
C11_NonMatchingKeyNoToggle ==
    (hotkey = SuperCtrlSpace /\ chord.keys = {ChordedX})
        => chord.fired = 0

\* super+ctrl+x has been pressed and the modifiers are released again.
C11_Witness ==
    /\ hotkey = SuperCtrlSpace
    /\ chord.keys = {ChordedX}
    /\ chord.phase = "done_other"
    /\ Released(ev)

\* C12: the hotkey logic toggles enabled only at an event at which all
\* modifiers are released, so at most once from one such event to the
\* next; an event that does not match, coming after one that did while
\* modifiers are held, sets the circuit-breaker flag; the flag stays set
\* until all modifiers are released; and that release does not toggle.
C12_AtMostOncePerChord ==
    [][/\ chord'.fired <= 1
       /\ (enabled' # enabled) => Released(ev')
       /\ (/\ HOTKEY_MATCHING
           /\ ~Released(ev')
           /\ ~is_match(hotkey, HOTKEY_MODIFIERS',
                        pressed_key_code(ev'.key)))
            => HOTKEY_MATCHING_CIRCUIT_BREAK'
       /\ (HOTKEY_MATCHING_CIRCUIT_BREAK /\ ~Released(ev'))
            => HOTKEY_MATCHING_CIRCUIT_BREAK'
       /\ (HOTKEY_MATCHING_CIRCUIT_BREAK /\ Released(ev'))
            => enabled' = enabled]_vars

\* The hotkey's key was pressed under its modifiers, x was pressed after
\* it, and the release of the modifiers has not toggled.
C12_Witness ==
    /\ hotkey = SuperCtrlSpace
    /\ [code |-> KEY_SPACE, full |-> TRUE] \in chord.keys
    /\ ChordedX \in chord.keys
    /\ Released(ev)
    /\ chord.fired = 0
    /\ enabled

\* C13 as stated: with caps lock on at every event, the hotkey
\* super+ctrl+space pressed completely (the modifiers, then Space, then
\* the modifiers released at once) toggles exactly once.
C13_CapsLockChordToggles ==
    (hotkey = SuperCtrlSpace /\ chord.phase = "done_ok" /\ chord.direct)
        => (chord.fired = 1 \/ ~is_capslock(ev.modifiers))

\* The same chord toggles exactly once when caps lock is off (SpecHotkey).
CapsLockOffChordToggles ==
    (hotkey = SuperCtrlSpace /\ chord.phase = "done_ok" /\ chord.direct)
        => (chord.fired = 1 \/ is_capslock(ev.modifiers))

\* C14: is_match is true exactly when the observed modifiers without caps
\* lock are the configured modifiers and the key is the configured key up
\* to ASCII case, or both keys are absent; and the result is the same with
\* caps lock added to or removed from the observed modifiers.
C14_IsMatch ==
    (ev.type = "is_match") =>
        LET k == pressed_key_code(ev.key)
            same_key ==
                \/ k = NoKey /\ hotkey.keycode = NoKey
                \/ /\ k # NoKey
                   /\ hotkey.keycode # NoKey
                   /\ to_ascii_lowercase(k) = to_ascii_lowercase(hotkey.keycode)
        IN /\ ret = (/\ ev.modifiers \ {MODIFIER_CAPSLOCK} = hotkey.modifiers
                     /\ same_key)
           /\ is_match(hotkey, ev.modifiers \cup {MODIFIER_CAPSLOCK}, k) = ret
           /\ is_match(hotkey, ev.modifiers \ {MODIFIER_CAPSLOCK}, k) = ret

\* A hotkey with the key X has matched the key x pressed with caps lock on.
C14_Witness ==
    /\ ev.type = "is_match"
    /\ ret
    /\ is_capslock(ev.modifiers)
    /\ hotkey.keycode = "X"
    /\ ev.key = CharKey("x")

\* The backspace counts of the send_backspace calls of one event.
BackspaceCounts(s) == {s[i][2] : i \in {j \in 1..Len(s) : s[j][1] = "bs"}}

\* One more backspace when the target holds selected text that no call
\* before get_backspace_count has deleted.
SelectionExtra(e) == IF e.sel THEN 1 ELSE 0

\* C15 as stated: no backspace count sent is negative; the count of a
\* letter-triggered transformation is the characters of the display buffer
\* (with the letter pushed) minus one and the count of a restore or macro
\* reconciliation is the characters of the display buffer, each plus one
\* when text is selected in the target.
C15_BackspaceCount ==
    [][/\ \A n \in BackspaceCounts(sent') : n >= 0
       /\ (PlainKey(ev') /\ ret') =>
            sent'[Len(sent') - 1] =
                <<"bs", (CharCount(display_buffer) + 1) - 1
                        + (IF should_dismiss_selection_if_needed(Cur(FALSE))
                           THEN 0 ELSE SelectionExtra(ev'))>>
       /\ (~PlainKey(ev') /\ sent' # <<>>) =>
            /\ sent'[1] = <<"bs", CharCount(display_buffer)
                                  + SelectionExtra(ev')>>
            /\ Len(sent') = 4 => sent'[3] = <<"bs", CharCount(sent'[2][2])>>
      ]_vars

\* C16 as stated: a Delete while enabled with control, alt or super held,
\* shift held with it or not, is a word boundary (both buffers cleared, a
\* new tracked word); with none of them held it pops one character.
C16_ModifiedDeleteIsBoundary ==
    [][(DeleteKey(ev') /\ enabled) =>
        IF ev'.modifiers \cap {MODIFIER_CONTROL, MODIFIER_ALT,
                               MODIFIER_SUPER} # {}
        THEN /\ buffer' = <<>>
             /\ display_buffer' = <<>>
             /\ should_track'
        ELSE display_buffer' = PopChar(display_buffer)]_vars

\* C17 as stated: a plain Delete while enabled takes the last character
\* off the typing buffer and the last character off the display buffer,
\* and when the typing buffer becomes empty the state is Idle.
C17_PopsBothBuffers ==
    [][(PlainDelete(ev') /\ enabled) =>
        /\ buffer' = PopChar(buffer)
        /\ display_buffer' = PopChar(display_buffer)
        /\ buffer' = <<>> => (display_buffer' = <<>> /\ should_track')]_vars

C19_MacroOnlyAtTabOrSpace ==
    [][MacroSent(sent') =>
        /\ BoundaryKey(ev')
        /\ ev'.key.code \in {KEY_TAB, KEY_SPACE}
        /\ enabled
        /\ is_macro_enabled]_vars

\* With macros switched off, Space has ended the displayed word "as", a
\* source of the macro table, and nothing was sent.
C19_Witness ==
    /\ BoundaryKey(ev)
    /\ ev.key.code = KEY_SPACE
    /\ ~is_macro_enabled
    /\ enabled
    /\ closed = <<"a", "s">>
    /\ closed \in DOMAIN macro_table
    /\ sent = <<>>

\* C20: a key-down of a punctuation or symbol character or of a shifted
\* digit sends nothing and is left to the OS, and leaves both buffers empty
\* and should_track true; while enabled the word in progress becomes the
\* previous word, with the character pushed onto it only if it is numeric.
C20_SpecialCharacter ==
    [][SpecialKey(ev') =>
        /\ sent' = <<>>
        /\ ~ret'
        /\ buffer' = <<>>
        /\ display_buffer' = <<>>
        /\ should_track'
        /\ enabled =>
            previous_word' =
                IF is_numeric(ev'.key.code)
                THEN Append(buffer, ev'.key.code)
                ELSE IF buffer # <<>> THEN buffer ELSE previous_word]_vars

\* A shifted digit has ended a transformed word of one letter: the word
\* with the digit is the previous word and nothing was sent.
C20_Witness ==
    /\ SpecialKey(ev)
    /\ is_numeric(ev.key.code)
    /\ Len(previous_word) = 2
    /\ closed # <<>>
    /\ closed # SubSeq(previous_word, 1, 1)
    /\ sent = <<>>
    /\ buffer = <<>>

\* A key-down of a printable key, that is one that is neither Enter, Tab,
\* Space, Escape nor Delete, with super or alt held (main.rs:199-200).
ChordedPrintable(e) ==
    /\ e.type = "KeyDown"
    /\ e.key.kind = "Char"
    /\ e.key.code \notin WordBoundaryKeys \cup {KEY_DELETE}
    /\ (is_super(e.modifiers) \/ is_alt(e.modifiers))

\* What a key-down that ends the word without pushing anything leaves:
\* nothing sent, the event left to the OS, both buffers empty and
\* should_track true.
EndsWordSilently ==
    /\ sent' = <<>>
    /\ ~ret'
    /\ buffer' = <<>>
    /\ display_buffer' = <<>>
    /\ should_track'

\* C21 as stated: a printable key pressed with super or alt held pushes no
\* character (the previous word is the word in progress as it was), emits
\* no reconciliation and leaves the state Idle.
C21_ChordedPrintableNoPush ==
    [][ChordedPrintable(ev') =>
        /\ EndsWordSilently
        /\ previous_word' = IF buffer # <<>> THEN buffer
                            ELSE previous_word]_vars

\* C21: a printable key pressed with super or alt held emits no
\* reconciliation and leaves the state Idle; unless it is a digit with
\* shift held too, which main.rs:190-196 pushes first, no character is
\* pushed: the previous word is the word in progress as it was.
C21_ChordedPrintable ==
    [][ChordedPrintable(ev') =>
        /\ EndsWordSilently
        /\ ~(enabled /\ is_numeric(ev'.key.code) /\ is_shift(ev'.modifiers))
            => previous_word' = IF buffer # <<>> THEN buffer
                                ELSE previous_word]_vars

\* The letter s pressed with alt held has ended the tracked word "a".
C21_Witness ==
    /\ ChordedPrintable(ev)
    /\ ev.key.code = "s"
    /\ is_alt(ev.modifiers)
    /\ previous_word = <<"a">>
    /\ closed = <<"a">>
    /\ sent = <<>>
    /\ buffer = <<>>
    /\ should_track

\* A key-down of a key that get_char gives as PressedKey::Raw.
RawKeyDown(e) == e.type = "KeyDown" /\ e.key.kind = "Raw"

\* C22: a key-down of an arrow key leaves both buffers empty and
\* should_track true, with enabled as it was and nothing sent; a key-down
\* of the globe key flips enabled once, leaves both buffers empty and
\* should_track true, and the handler returns true.
C22_RawKeys ==
    [][RawKeyDown(ev') =>
        /\ ev'.key.code \in ArrowKeys =>
            /\ buffer' = <<>>
            /\ display_buffer' = <<>>
            /\ should_track'
            /\ enabled' = enabled
            /\ sent' = <<>>
        /\ ev'.key.code = RAW_KEY_GLOBE =>
            /\ enabled' = ~enabled
            /\ buffer' = <<>>
            /\ display_buffer' = <<>>
            /\ should_track'
            /\ ret']_vars

\* The left arrow has ended the word "a" after the globe key had switched
\* Vietnamese off and on again.
C22_Witness ==
    /\ RawKeyDown(ev)
    /\ ev.key.code = RAW_ARROW_LEFT
    /\ closed = <<"a">>
    /\ vn_apps # <<>>
    /\ enabled
    /\ buffer = <<>>
    /\ should_track

\* The typing buffer once the key of event e is pushed (input.rs:353-360).
Pushed(e) ==
    IF ByteLen(buffer) <= MAX_POSSIBLE_WORD_LENGTH
    THEN Append(buffer, TypedChar(e.key.code, e.modifiers))
    ELSE buffer

\* The three hard-stop conditions on a typing buffer b, its length taken in
\* bytes as input.rs:395 takes it, and on the previous word.
HardStop(b) ==
    \/ ByteLen(b) > MAX_POSSIBLE_WORD_LENGTH
    \/ \E p \in TONE_DUPLICATE_PATTERNS : Contains(LowerStr(b), p)
    \/ previous_word \in {<<";">>, <<"'">>, <<"?">>, <<"/">>}

EngineFailed(e) == PlainKey(e) /\ ~e.eng.ok

\* C24 as stated: when the engine fails on a tracked keystroke nothing is
\* sent, the handler returns false and the display buffer is what it was
\* with the typed character appended.
C24_FailureKeepsDisplay ==
    [][(EngineFailed(ev') /\ enabled /\ should_track) =>
        /\ sent' = <<>>
        /\ ~ret'
        /\ display_buffer' = Append(display_buffer,
                                    TypedChar(ev'.key.code, ev'.modifiers))
      ]_vars

\* C24: when the engine fails on a tracked keystroke nothing is sent and
\* the handler returns false; the hard stop is evaluated all the same, and
\* unless it holds the word goes on being tracked with the typed character
\* appended to both buffers, whereas if it holds both buffers are cleared
\* and tracking is suspended.
C24_EngineFailure ==
    [][(EngineFailed(ev') /\ enabled /\ should_track) =>
        /\ sent' = <<>>
        /\ ~ret'
        /\ IF HardStop(Pushed(ev'))
           THEN /\ display_buffer' = <<>>
                /\ buffer' = <<>>
                /\ ~should_track'
           ELSE /\ display_buffer' =
                    Append(display_buffer,
                           TypedChar(ev'.key.code, ev'.modifiers))
                /\ buffer' = Pushed(ev')
                /\ should_track']_vars

\* The engine has failed on the key s typed after the displayed word "a2":
\* nothing was sent and the display buffer is "a2" followed by s.
C24_Witness ==
    /\ EngineFailed(ev)
    /\ ev.key.code = "s"
    /\ display_buffer = <<"a2", "s">>
    /\ buffer = <<"a", "a", "s">>
    /\ sent = <<>>
    /\ ~ret
    /\ should_track

\* C25 as stated: a key-down of a key whose code get_char has no case for
\* (here F1) leaves both buffers empty and sends nothing.
C25_UnrecognisedKeyIsBoundary ==
    [][(RawKeyDown(ev') /\ ev'.key.code \notin ArrowKeys \cup {RAW_KEY_GLOBE})
        => /\ buffer' = <<>>
           /\ display_buffer' = <<>>
           /\ sent' = <<>>]_vars

-----------------------------------------------------------------------------
(* C30 *)

\* A token as from_str reads it, the modifier it names (NoKey when it names
\* none) and the key it names.
TokenRead(token) == to_uppercase(trim(token))

ModifierNamed(token) ==
    CASE TokenRead(token) = <<"S", "H", "I", "F", "T">> -> MODIFIER_SHIFT
      [] TokenRead(token) = <<"A", "L", "T">> -> MODIFIER_ALT
      [] TokenRead(token) = <<"S", "U", "P", "E", "R">> -> MODIFIER_SUPER
      [] TokenRead(token) = <<"C", "T", "R", "L">> -> MODIFIER_CONTROL
      [] OTHER -> NoKey

KeyNamed(token) ==
    CASE TokenRead(token) = <<"E", "N", "T", "E", "R">> -> KEY_ENTER
      [] TokenRead(token) = <<"S", "P", "A", "C", "E">> -> KEY_SPACE
      [] TokenRead(token) = <<"T", "A", "B">> -> KEY_TAB
      [] TokenRead(token) = <<"D", "E", "L", "E", "T", "E">> -> KEY_DELETE
      [] TokenRead(token) = <<"E", "S", "C">> -> KEY_ESCAPE
      [] TokenRead(token) = <<>> -> NoKey
      [] OTHER -> TokenRead(token)[Len(TokenRead(token))]

\* The tokens joined with '+'.
RECURSIVE Joined(_)
Joined(tokens) ==
    IF Len(tokens) = 1 THEN tokens[1]
    ELSE tokens[1] \o <<"+">> \o Joined(Tail(tokens))

\* C30: the hotkey parsed from a key sequence has exactly the modifiers its
\* tokens name and the key of its last token that names no modifier (no key
\* when there is none); the case of the letters does not matter, and when
\* at most one token names no modifier, the tokens joined in any other
\* order parse to the same hotkey.
C30_FromStrOrderAndCase ==
    ev.type = "set_hotkey" =>
        LET tokens == split(ev.arg)
            n == Len(tokens)
            modifier_tokens == {i \in 1..n : ModifierNamed(tokens[i]) # NoKey}
            key_tokens == (1..n) \ modifier_tokens
            last == CHOOSE i \in key_tokens : \A j \in key_tokens : j <= i
            orders == {p \in [1..n -> 1..n] :
                          \A i, j \in 1..n : i # j => p[i] # p[j]}
        IN /\ hotkey.modifiers =
                  {ModifierNamed(tokens[i]) : i \in modifier_tokens}
           /\ hotkey.keycode =
                  IF key_tokens = {} THEN NoKey ELSE KeyNamed(tokens[last])
           /\ from_str(to_uppercase(ev.arg)) = hotkey
           /\ from_str(str_to_ascii_lowercase(ev.arg)) = hotkey
           /\ Cardinality(key_tokens) <= 1 =>
                  \A p \in orders :
                      from_str(Joined([i \in 1..n |-> tokens[p[i]]])) = hotkey

\* The key sequence "x+super+ctrl" was set: the hotkey is super+ctrl+X.
C30_Witness ==
    /\ ev.type = "set_hotkey"
    /\ ev.arg = <<"x", "+", "s", "u", "p", "e", "r", "+", "c", "t", "r", "l">>
    /\ hotkey = [modifiers |-> {MODIFIER_SUPER, MODIFIER_CONTROL},
                 keycode |-> "X"]

-----------------------------------------------------------------------------
(* C26 *)

\* The value the file gives a key: that of its last line for the key, or
\* <<"absent">> when it has no such line (or does not exist).
ValueOf(file, key) ==
    LET at == {i \in 1..Len(file.lines) : file.lines[i].left = key}
    IN IF at = {} THEN <<"absent">>
       ELSE file.lines[CHOOSE i \in at : \A j \in at : j <= i].right

-----------------------------------------------------------------------------
(* Per-application input mode: the focused application changes while the   *)
(* user types and toggles (main.rs:90-100, 279; input.rs:181-191,          *)
(* 232-241).  The config file may list applications and switch the         *)
(* automatic toggle on (config.rs:117-123).                                *)

\* The applications that get the focus.
AppNames == {"Safari", "Terminal", "Notes"}

InitApps ==
    /\ buffer = <<>>
    /\ display_buffer = <<>>
    /\ previous_word = <<>>
    /\ enabled = TRUE
    /\ should_track = TRUE
    /\ is_macro_enabled = TRUE
    /\ method = "telex"
    /\ listener = "idle"
    /\ KEYBOARD_LAYOUT_CHARACTER_MAP =
            {PREDEFINED_CHARS[i] : i \in 1..Len(PREDEFINED_CHARS)}
    /\ vn_apps \in {<<>>, <<"Safari">>}
    /\ en_apps \in {<<>>, <<"Terminal">>, <<"Terminal", "Notes">>}
    /\ is_auto_toggle_enabled \in BOOLEAN
    /\ temporary_disabled = FALSE
    /\ previous_modifiers = {}
    /\ HOTKEY_MODIFIERS = {}
    /\ HOTKEY_MATCHING = FALSE
    /\ HOTKEY_MATCHING_CIRCUIT_BREAK = FALSE
    /\ held = {}
    /\ screen = <<>>
    /\ ev = [type |-> "Init", key |-> NoneKey, modifiers |-> {},
             sel |-> FALSE, valid |-> FALSE, eng |-> NoEngine]
    /\ ret = FALSE
    /\ sent = <<>>
    /\ closed = <<>>
    /\ typed = <<>>
    /\ chord = [phase |-> "idle", fired |-> 0, keys |-> {},
                direct |-> FALSE, seen |-> {}, downs |-> {}]
    /\ nevents = 0
    /\ chosen = <<>>
    /\ macro_table = MacroTable
    /\ hotkey = DefaultHotkey
    /\ active_app = ""
    /\ ConfigRead

\* auto_toggle_vietnamese, the callback of an application change: app is
\* the application that got the focus.
AppChange(app) ==
    IF is_auto_toggle_enabled
    THEN Mutation("update_active_app", app,
                  update_active_app(Cur(FALSE), app), method, hotkey,
                  macro_table, config)
    ELSE Mutation("auto_toggle_vietnamese", app, Cur(FALSE), method, hotkey,
                  macro_table, config)

\* One more event is counted, and a toggle of the input mode is recorded
\* for the application it was made in.
Recorded ==
    /\ nevents < MaxEvents
    /\ nevents' = nevents + 1
    /\ UNCHANGED chord
    /\ chosen' = IF enabled' # enabled /\ ev'.type # "update_active_app"
                 THEN (active_app :> enabled') @@ chosen
                 ELSE chosen

NextApps ==
    \/ KeyCharacter("a") /\ Recorded
    \/ \E m \in {{}, {MODIFIER_CONTROL}} : FlagsChanged(m) /\ Recorded
    \/ KeyRaw(RAW_KEY_GLOBE) /\ Recorded
    \/ UiToggleVietnamese /\ Recorded
    \/ \E app \in AppNames : AppChange(app) /\ Recorded

SpecApps == InitApps /\ [][NextApps]_vars

\* C26 as stated: the program started with a config file.  When the file is
\* missing, or has no method line, or one whose value is not "vni" in any
\* case, the method is Telex; when it is missing, or has no hotkey line, or
\* one whose value names no modifier and no key, the hotkey is the default;
\* when it is missing, or has no macros line that parses, the macro table
\* is empty.
C26_DefaultsWhenAbsentOrUnparsable ==
    ev.type = "Startup" =>
        LET m == ValueOf(ev.arg, "method")
            h == ValueOf(ev.arg, "hotkey")
            parsed == {i \in 1..Len(ev.arg.lines) :
                          /\ ev.arg.lines[i].left = "macros"
                          /\ ev.arg.lines[i].right # <<"unparsable">>}
        IN /\ str_to_ascii_lowercase(m) # <<"v", "n", "i">>
                  => method = "telex"
           /\ (\/ h = <<"absent">>
               \/ \A i \in 1..Len(split(h)) : TokenRead(split(h)[i]) = <<>>)
                  => hotkey = DefaultHotkey
           /\ parsed = {} => macro_table = <<>>

-----------------------------------------------------------------------------
(* C27 *)

\* C27 as stated: after a settings operation on InputState, what the
\* ConfigStore holds of the setting it changed is the setting in memory:
\* the method after set_method, the hotkey after set_hotkey, the macro
\* table after add_macro and delete_macro, the macro flag after
\* toggle_macro_enabled.
C27_WriteThrough ==
    /\ ev.type = "set_method"
           => TypingMethod_from_str(config.method) = method
    /\ ev.type = "set_hotkey" => from_str(config.hotkey) = hotkey
    /\ ev.type \in {"add_macro", "delete_macro"}
           => config.macro_table = macro_table
    /\ ev.type = "Settings" => config.is_macro_enabled = is_macro_enabled

-----------------------------------------------------------------------------
(* C28 *)

\* C28 as stated: a settings operation of the UI thread (toggle_vietnamese,
\* set_method) never takes place while the listener thread is in the
\* middle of a key event, between its push and its call of the engine.
C28_MutualExclusion ==
    ev.type \in {"toggle_vietnamese", "set_method"} => listener = "idle"

-----------------------------------------------------------------------------
(* C29 *)

\* C29 as stated: the layout map that get_char finds when it classifies a
\* key is complete: it holds every character of PREDEFINED_CHARS, never
\* none or only the first few.
C29_CompleteMapObserved ==
    ev.type = "get_char" =>
        ev.arg = {PREDEFINED_CHARS[i] : i \in 1..Len(PREDEFINED_CHARS)}

-----------------------------------------------------------------------------
(* C31 *)

\* C31 as stated: when a step empties both buffers of a word in progress,
\* previous_word is afterwards the typing buffer as it was before the step
\* or, when the step pushed its character first, as it was at the moment
\* of clearing.
C31_PreviousWordIsSnapshot ==
    [][(buffer # <<>> /\ buffer' = <<>> /\ display_buffer' = <<>>)
           => \/ previous_word' = buffer
              \/ /\ ev'.type = "KeyDown"
                 /\ ev'.key.kind = "Char"
                 /\ previous_word' = Pushed(ev')]_vars

-----------------------------------------------------------------------------
(* C32 *)

\* C32 as stated: with the hotkey ctrl+shift, when all modifiers are
\* released, enabled has been toggled once since the first of them went
\* down if exactly ctrl and shift were held in between and no key went
\* down, and not at all if a key went down while exactly ctrl and shift
\* were held or if another modifier was held at some time.
C32_ModifiersOnlyChord ==
    (hotkey = CtrlShift /\ Released(ev))
        => /\ (chord.seen = hotkey.modifiers /\ chord.downs = {})
                  => chord.fired = 1
           /\ (\/ \E d \in chord.downs : d.full
               \/ ~(chord.seen \subseteq hotkey.modifiers))
                  => chord.fired = 0

-----------------------------------------------------------------------------
(* C33 *)

\* C33: whenever should_track is false both buffers are empty, and a plain
\* keystroke that arrives while should_track is false is not appended to
\* either buffer, sends nothing and is not reported as handled.
C33_SuspendedBuffersEmpty ==
    [][/\ ~should_track' => (buffer' = <<>> /\ display_buffer' = <<>>)
       /\ (~should_track /\ PlainKey(ev'))
            => /\ buffer' = <<>>
               /\ display_buffer' = <<>>
               /\ sent' = <<>>
               /\ ~ret'
               /\ ~should_track']_vars

\* The word "ss" was suspended, then the key of 'a' was pressed: tracking
\* is still suspended and the buffers are empty.
C33_Witness ==
    /\ ~should_track
    /\ enabled
    /\ ev.type = "KeyDown"
    /\ ev.key = CharKey("a")
    /\ ev.modifiers = {}
    /\ previous_word = <<"s", "s">>
    /\ buffer = <<>>
    /\ display_buffer = <<>>

-----------------------------------------------------------------------------
(* C34 *)

\* C34: event_handler has returned true exactly when the event was a plain
\* keystroke for which it sent a reconciliation, or the key-down of the
\* globe key; after a word-boundary key (with or without a restore or a
\* macro replacement), Delete, punctuation, a modifier change or a letter
\* that needed no reconciliation it has returned false.
C34_HandledExactlyWhen ==
    ret <=> \/ PlainKey(ev) /\ sent # <<>>
            \/ RawKeyDown(ev) /\ ev.key.code = RAW_KEY_GLOBE

\* The key of 's' after "a" has been turned into the toned letter: the
\* reconciliation was sent and the event is reported as handled.
C34_Witness ==
    /\ ret
    /\ PlainKey(ev)
    /\ ev.key = CharKey("s")
    /\ buffer = <<"a", "s">>
    /\ display_buffer = <<"a2">>
    /\ sent = Reconciliation(1, <<"a2">>)

-----------------------------------------------------------------------------
(* C35 *)

\* C35: after a plain keystroke whose transformation was accepted and
\* reported a removed tone mark or letter modification, the reconciliation
\* has been sent (the backspaces, then the engine's output), the event is
\* reported as handled, both buffers are empty and should_track is false.
C35_RemovalSuspends ==
    (PlainKey(ev) /\ ev.eng.ok /\ ev.eng.removed)
        => /\ Len(sent) >= 2
           /\ sent[Len(sent) - 1][1] = "bs"
           /\ sent[Len(sent)] = <<"str", ev.eng.output>>
           /\ ret
           /\ buffer = <<>>
           /\ display_buffer = <<>>
           /\ ~should_track

\* The second key of "as" made the engine remove a mark: "a2" was sent over
\* the one character on screen and the word is suspended.
C35_Witness ==
    /\ PlainKey(ev)
    /\ ev.key = CharKey("s")
    /\ ev.eng = [ok |-> TRUE, output |-> <<"a2">>, removed |-> TRUE]
    /\ sent = Reconciliation(1, <<"a2">>)
    /\ previous_word = <<"a", "s">>
    /\ ~should_track
    /\ buffer = <<>>

C37_TrackedWordIsClean ==
    (ev.type = "KeyDown" /\ should_track)
        => /\ \A p \in TONE_DUPLICATE_PATTERNS :
                    ~Contains(LowerStr(buffer), p)
           /\ Len(buffer) <= MAX_POSSIBLE_WORD_LENGTH

\* A plain Delete has rewritten the typing buffer of a tracked word from a
\* display buffer of transformed characters.
C37_Witness ==
    /\ ev.type = "KeyDown"
    /\ ev.key = CharKey(KEY_DELETE)
    /\ ev.modifiers = {}
    /\ enabled
    /\ should_track
    /\ buffer = <<"a3", "a3", "a3", "a3">>
    /\ display_buffer = buffer

\* The application names in a list of the ConfigStore.
Listed(apps) == {apps[i] : i \in 1..Len(apps)}

\* C38: the per-application lists stay disjoint: starting from disjoint
\* vn_apps and en_apps, after any sequence of add_vietnamese_app and
\* add_english_app calls no application name is in both lists, and the
\* most recent add for a name decides which list contains it.
C38_ListsDisjoint ==
    /\ Listed(vn_apps) \cap Listed(en_apps) = {}
    /\ \A app \in DOMAIN chosen :
            IF chosen[app]
            THEN app \in Listed(vn_apps) \ Listed(en_apps)
            ELSE app \in Listed(en_apps) \ Listed(vn_apps)

\* Terminal, an English application of the config file, was toggled to
\* Vietnamese after Safari had been toggled to English.
C38_Witness ==
    /\ ev.type = "toggle_vietnamese"
    /\ active_app = "Terminal"
    /\ chosen = ("Safari" :> FALSE) @@ ("Terminal" :> TRUE)
    /\ vn_apps = <<"Terminal">>
    /\ en_apps = <<"Safari">>

C40_MacroTablesAgree ==
    [][/\ macro_table' = config'.macro_table
       /\ ev'.type = "add_macro"
            => /\ DOMAIN macro_table' = DOMAIN macro_table \cup {ev'.arg[1]}
               /\ macro_table'[ev'.arg[1]] = ev'.arg[2]
               /\ \A w \in DOMAIN macro_table \ {ev'.arg[1]} :
                        macro_table'[w] = macro_table[w]
       /\ ev'.type = "delete_macro"
            => /\ DOMAIN macro_table' = DOMAIN macro_table \ {ev'.arg}
               /\ \A w \in DOMAIN macro_table' :
                        macro_table'[w] = macro_table[w]
               /\ ev'.arg \notin DOMAIN macro_table
                    => /\ macro_table' = macro_table
                       /\ config'.macro_table = config.macro_table]_vars

\* The replacement of "as", "xy" in the table read at start, was
\* overwritten by add_macro in both tables.
C40_Witness ==
    /\ ev.type = "add_macro"
    /\ ev.arg = << <<"a", "s">>, <<"x">> >>
    /\ macro_table[<<"a", "s">>] = <<"x">>
    /\ config.macro_table = macro_table
    /\ <<"b">> \notin DOMAIN macro_table
    /\ nevents > 1

=============================================================================
